---- MODULE Spec2Model ----
(***************************************************************************)
(* A model of sccache's cache pipeline                                     *)
(* (CompilerHasher::get_cached_or_compile, src/compiler/compiler.rs) and   *)
(* of the server task that runs it and answers the client                  *)
(* (SccacheService::start_compile_task, src/server.rs).                    *)
(*                                                                         *)
(* Every Compile request is a task spawned on the executor.  Its pipeline  *)
(* is hash -> lookup -> (hit: materialize) | (miss: compile -> store); the *)
(* steps of different requests interleave freely, because compiler         *)
(* processes and worker-pool closures run beside the event thread.         *)
(***************************************************************************)
EXTENDS Integers, Sequences, FiniteSets, TLC

\* ---------------------------------------------------------------- bounds
NKeys == 2       \* distinct fingerprints
NPaths == 2      \* distinct output paths on disk
MaxRuns == 2     \* requests served one after the other by one task slot
NCfg == 2        \* distinct dist configurations with a scheduler url
MaxNow == 34     \* seconds the clock runs
BlobLen == 2     \* chunks copied when a blob is written into a temp file
NExes == 1       \* executables the clients ask for
NClients == 2    \* clients with a Compile request on the way at one time
MaxMtime == 3    \* modification times an executable goes through
MaxRequests == 3 \* Compile requests answered
IdleTimeout == 3 \* the idle timeout, in seconds, when it is not zero
MaxQueue == 2    \* messages waiting in the channel
MaxCompiles == 1 \* Compile requests counted since the counters were zeroed
MaxClock == 16   \* seconds the clock of the event loop runs
MaxCalls == 2    \* requests the clients send over their connections

\* The Compile requests: two of them, so that every step of one request can
\* fall between any two steps of the other.
Reqs == {1, 2}
Keys == 1..NKeys
Paths == 1..NPaths

\* The declared outputs of a compilation, logical name (an index) -> path:
\* one object at any path, or one output at every path.
OutputMaps == {<<p>> : p \in Paths} \cup {[n \in Paths |-> n]}

\* ------------------------------------------------------- program constants
\* exit_status(0) of a synthesized cache hit, and the codes of the replies
StatusOk == 0
StatusFail == 1
RetcodeFatal == -2
RetcodeHttp == 1

\* DIST_CLIENT_RECREATE_TIMEOUT, in seconds
DIST_CLIENT_RECREATE_TIMEOUT == 30

\* File modes: a NamedTempFile is created private; a compiler's output is not.
TmpMode == 0
OutMode == 1

\* The time _run waits for the services to go away, in seconds.
GracePeriod == 10

CacheControls == {"Default", "ForceRecache"}
MissTypes == {"Normal", "ForcedRecache", "TimedOut", "CacheReadError"}

NoFile == [data |-> 0, len |-> 0, mode |-> 0]
NoTmp == [path |-> 0, len |-> 0]
NoMember == [present |-> FALSE, bytes |-> << >>]
NoEntry == [objs |-> << >>, stdout |-> NoMember, stderr |-> NoMember]
NoOutput == [status |-> StatusOk, stdout |-> << >>, stderr |-> << >>]
NoReply == [sent |-> FALSE, retcode |-> 0, stdout |-> << >>, stderr |-> << >>]

\* What the compiler prints is determined by its inputs, hence by the key.
\* Nothing on stdout and something on stderr: an empty and a non-empty stream.
CompilerStdout(k) == << >>
CompilerStderr(k) == <<k>>

VARIABLES
    task,       \* per request: the state captured by its pipeline's closures
    storage,    \* the storage backend: key -> committed entry
    files,      \* the file system: output path -> file
    stats,      \* ServerStats
    dist_client,\* DistClientContainer.state
    now,        \* the clock (Instant::now()), in seconds
    got,        \* what the last call of get_client returned
    compilers,  \* SccacheService.compilers: executable path -> cached detection
    exes,       \* the executables on disk: path -> modification time and kind
    recorded,   \* per path, the modification time its entry was recorded with
    info,       \* per client: its Compile request on the way to check_compiler
    created,    \* the last call of create_state: what it met and what it returned
    sup,        \* _run: the phase of the server, and ShutdownOrInactive's timer
    chan,       \* the channel of ServerMessage from the services to _run
    conn,       \* the connections: the service bound to each socket
    active,     \* Info.active: the instances of ActiveInfo alive
    inflight,   \* the compile tasks spawned and not yet over
    link,       \* bind: the transport of each connection and its compile task
    probe,      \* detect_compiler: the executable probed and what came of it
    waiter      \* Info.blocker, and whether the task waiting for the services is woken

vars == <<task, storage, files, stats, dist_client, now, got,
          compilers, exes, recorded, info, created,
          sup, chan, conn, active, inflight, link, probe, waiter>>

\* The state of the event loop.
loop == <<sup, chan, conn, active, inflight>>

\* The compiler detection's state.
detect == <<compilers, exes, recorded, info>>

\* What the steps of the requests and of the detection leave alone.
\* What the server and its connections leave alone.
aside == <<probe, waiter>>

apart == <<created, loop, link, aside>>

\* What no step of a request's pipeline touches.
others == <<now, got, detect, apart>>

IdleTask ==
    [pc |-> "idle", runs |-> 0, key |-> 0, outputs |-> << >>, cache_control |-> "Default",
     rx |-> TRUE, get_called |-> FALSE, compiles |-> 0, cacheable |-> FALSE,
     lookup |-> "none", miss_type |-> "none", entry |-> NoEntry, todo |-> {}, tmp |-> NoTmp,
     set_mode |-> 0, result |-> "none", output |-> NoOutput,
     put |-> "none", reply |-> NoReply,
     dist |-> "none", dist_type |-> "NoDist", error |-> << >>, calls |-> << >>,
     pushed |-> {}, kept |-> {}]

ZeroStats ==
    [cache_errors |-> 0, cache_hits |-> 0, cache_misses |-> 0,
     compile_fails |-> 0, forced_recaches |-> 0, cache_timeouts |-> 0,
     non_cacheable_compilations |-> 0, cache_write_errors |-> 0,
     cache_writes |-> 0, dist_compiles |-> 0, dist_errors |-> 0,
     requests_unsupported_compiler |-> 0, requests_not_compile |-> 0,
     requests_not_cacheable |-> 0, requests_executed |-> 0,
     compile_requests |-> 0]

\* DistClientState
Disabled == [tag |-> "Disabled", cfg |-> 0, at |-> 0]
Some(cfg) == [tag |-> "Some", cfg |-> cfg, at |-> 0]
FailWithMessage(cfg) == [tag |-> "FailWithMessage", cfg |-> cfg, at |-> 0]
RetryCreateAt(cfg, instant) == [tag |-> "RetryCreateAt", cfg |-> cfg, at |-> instant]

NoCall == [res |-> "no call", time |-> 0]

\* The executables, the clients that ask for them, and the entries of the
\* compilers map: no entry, the cached non-result, a compiler with its mtime.
ExePaths == 1..NExes
Clients == 1..NClients
NotCached == [tag |-> "NotCached", c |-> 0, mtime |-> 0]
CachedNone == [tag |-> "None", c |-> 0, mtime |-> 0]
CachedSome(c, mtime) == [tag |-> "Some", c |-> c, mtime |-> mtime]
IdleInfo == [pc |-> "idle", path |-> 0, mtime |-> 0, probed |-> FALSE,
             answer |-> "none"]

\* What an executable is: a compiler the detection knows, or something else.
ExeKinds == {"compiler", "unknown"}

\* No call of create_state on record.
NoAttempt == [cfg |-> 0, at |-> 0, token |-> FALSE, client |-> FALSE,
              status |-> FALSE, state |-> Disabled]

\* The connection whose service is followed; further services are those of
\* the compile tasks.
Conns == {1}

\* No executable is being probed.
NoChild == [spawn |-> "none", status |-> 0, utf8 |-> TRUE, stdout |-> << >>]
NoProbe == [pc |-> "none", stem |-> << >>, vv |-> NoChild, e |-> NoChild,
            bare |-> FALSE, result |-> [tag |-> "none", v |-> ""],
            info |-> [tag |-> "none", v |-> ""]]

\* The connections whose transport is followed, and a connection on which
\* nothing has been read yet.
Links == {1, 2}
None == [some |-> FALSE, v |-> 0]
SomeOf(v) == [some |-> TRUE, v |-> v]
NoFinished == [retcode |-> None, signal |-> None, stdout |-> << >>, stderr |-> << >>]
NoTask == [pc |-> "none", env_vars |-> << >>, cache_control |-> "Default",
           result |-> "none", output |-> NoOutput, error |-> << >>,
           finished |-> NoFinished]
NoLink == [pending |-> 0, read |-> 0, inner |-> "none", message |-> "none",
           chunk |-> FALSE, task |-> NoTask, wire |-> << >>]
NoConn == [state |-> "none", reply |-> "none"]

\* LoopStart arming the timer whatever the idle timeout.
LoopStart_Armed(dur) ==
    /\ sup = [phase |-> "running", why |-> "none", timeout_dur |-> dur,
              timeout |-> now + IdleTimeout, since |-> 0]
    /\ chan = [rx |-> TRUE, queue |-> << >>]
    /\ conn = [c \in Conns |-> NoConn]
    /\ active = 1
    /\ inflight = 0

\* _run has built its futures: the timer of ShutdownOrInactive is armed when
\* the idle timeout dur is not zero (timeout 0 stands for None); the service
\* the accept loop clones holds the one instance of ActiveInfo.
LoopStart(dur) ==
    /\ sup = [phase |-> "running", why |-> "none", timeout_dur |-> dur,
              timeout |-> IF dur # 0 THEN now + dur ELSE 0, since |-> 0]
    /\ chan = [rx |-> TRUE, queue |-> << >>]
    /\ conn = [c \in Conns |-> NoConn]
    /\ active = 1
    /\ inflight = 0

\* Nothing waits for the services: Info.blocker is None.
NoWaiter == [blocker |-> FALSE, woken |-> FALSE]

NothingAside == probe = NoProbe /\ waiter = NoWaiter
NothingApart ==
    created = NoAttempt /\ LoopStart(0) /\ link = [c \in Links |-> NoLink] /\ NothingAside

\* A server that has detected nothing yet.
NoDetection ==
    /\ compilers = [p \in ExePaths |-> NotCached]
    /\ recorded = [p \in ExePaths |-> 0]
    /\ info = [i \in Clients |-> IdleInfo]

\* Configurations: 0 has no scheduler url.
Configs == 0..NCfg

\* The server built without the dist-client feature: the container has no
\* state, get_client answers Ok(None) and reset_state does nothing.
Init ==
    /\ task = [r \in Reqs |-> IdleTask]
    /\ storage = [k \in Keys |-> NoEntry]
    /\ files = [p \in Paths |-> NoFile]
    /\ stats = ZeroStats
    /\ dist_client = Disabled
    /\ now = 1
    /\ got = NoCall
    /\ NoDetection
    /\ NothingApart
    /\ exes = [p \in ExePaths |-> [mtime |-> 1, kind |-> "compiler"]]


\* ------------------------------------- the task's closure on the result
Inc(s, field) == [s EXCEPT ![field] = s[field] + 1]

\* The match on the pipeline's result: the counters.
StatsAfter(s, t) ==
    CASE t.result = "Error" -> Inc(s, "cache_errors")
      [] t.result = "CacheHit" -> Inc(s, "cache_hits")
      [] t.result = "CacheMiss" ->
            LET d == CASE t.dist_type = "Ok" -> Inc(s, "dist_compiles")
                       [] t.dist_type = "Error" -> Inc(s, "dist_errors")
                       [] OTHER -> s
            IN
            Inc(CASE t.miss_type = "ForcedRecache" -> Inc(d, "forced_recaches")
                  [] t.miss_type = "TimedOut" -> Inc(d, "cache_timeouts")
                  [] t.miss_type = "CacheReadError" -> Inc(d, "cache_errors")
                  [] OTHER -> d,
                "cache_misses")
      [] t.result = "NotCacheable" ->
            Inc(Inc(s, "cache_misses"), "non_cacheable_compilations")
      [] t.result = "CompileFailed" -> Inc(s, "compile_fails")
      [] t.result = "ErrProcess" -> Inc(s, "compile_fails")
      [] t.result = "ErrHttp" -> s
      [] OTHER -> Inc(s, "cache_errors")

\* The match on the pipeline's result: the CompileFinished message.
FinishedOf(t) ==
    IF t.result = "ErrOther"
    THEN [sent |-> TRUE, retcode |-> RetcodeFatal, stdout |-> << >>, stderr |-> <<0>>]
    ELSE IF t.result = "ErrHttp"
    THEN [sent |-> TRUE, retcode |-> RetcodeHttp, stdout |-> << >>, stderr |-> <<0>>]
    ELSE [sent |-> TRUE, retcode |-> t.output.status,
          stdout |-> t.output.stdout, stderr |-> t.output.stderr]

\* What dropping the un-awaited future of an issued put does to the put:
\* a put not yet completed is cancelled, or goes on in the backend.
DropPut(put) == IF put = "issued" THEN {"cancelled", "issued"} ELSE {put}

\* What is left of a task once its closure has run: the pipeline's captures
\* have been consumed or dropped.  What remains is the request's key and
\* result, the reply and its receiver, and the put; the entry of an issued
\* put lives on in the backend.
Consumed(t) ==
    [IdleTask EXCEPT !.pc = t.pc, !.runs = t.runs, !.key = t.key,
                     !.result = t.result,
                     !.rx = t.rx, !.reply = t.reply, !.put = t.put,
                     !.entry = IF t.put = "issued" THEN t.entry ELSE NoEntry]

\* Joined holding the reply of a miss back until the cache write is over.
Joined_Blocking(t) ==
    IF t.rx
    THEN {Consumed([t EXCEPT
              !.reply = IF t.result = "CacheMiss" THEN t.reply ELSE FinishedOf(t),
              !.pc = IF t.result = "CacheMiss" THEN "write" ELSE "done"])}
    ELSE {Consumed([t EXCEPT !.pc = "done", !.put = put]) : put \in DropPut(t.put)}

\* send.join(cache_write): the join polls the send first; when the body
\* receiver is gone the send fails and the join ends there, dropping the
\* cache-write future without polling it.
Joined(t) ==
    IF t.rx
    THEN {Consumed([t EXCEPT
              !.reply = FinishedOf(t),
              !.pc = IF t.result = "CacheMiss" THEN "write" ELSE "done"])}
    ELSE {Consumed([t EXCEPT !.pc = "done", !.put = put]) : put \in DropPut(t.put)}

\* ResetState putting the retry one second ahead.
ResetState_Ahead(state, t) ==
    IF state.tag \in {"Some", "FailWithMessage", "RetryCreateAt"}
    THEN [tag |-> "RetryCreateAt", cfg |-> state.cfg, at |-> t + 1]
    ELSE state

\* reset_state: every state with a configuration becomes RetryCreateAt one
\* second ago.
ResetState(state, t) ==
    IF state.tag \in {"Some", "FailWithMessage", "RetryCreateAt"}
    THEN RetryCreateAt(state.cfg, t - 1)
    ELSE state

\* The pipeline of r resolves to (res, out); the closure of start_compile_task
\* runs on it in the same poll of the task: the counters, then the join.
Resolve(r, t, res, out) ==
    LET resolved == [t EXCEPT !.result = res, !.output = out] IN
    /\ stats' = StatsAfter(stats, resolved)
    /\ dist_client' = IF res = "ErrHttp" THEN ResetState(dist_client, now)
                      ELSE dist_client
    /\ UNCHANGED others
    /\ \E after \in Joined(resolved) : task' = [task EXCEPT ![r] = after]

\* The pipeline of r takes a step without resolving.
Step(r, t) ==
    /\ task' = [task EXCEPT ![r] = t]
    /\ UNCHANGED <<stats, dist_client, others>>

\* Polled for a task that is dropped together with the connection.
Polled_Cancelled(t, stage) == t.pc = stage /\ t.rx

\* The task of a request is spawned on the executor, on its own: it is polled,
\* stage after stage, whatever becomes of the connection it came from.
Polled(t, stage) == t.pc = stage

\* ------------------------------------------------- start_compile_task (entry)
\* A Compile request reaches start_compile_task: the cache control is taken
\* from the forwarded environment, the pipeline future is built and the task
\* is spawned on the executor.  Requests are numbered in the order they
\* start, and fingerprints in the order they first occur.
KeysInUse == {task[q].key : q \in Reqs} \ {0}

Start(r) ==
    /\ task[r].pc = "idle"
    /\ IF r = 1 THEN TRUE ELSE task[r - 1].pc # "idle"
    /\ \E k \in {j \in Keys : j <= Cardinality(KeysInUse) + 1},
          outs \in OutputMaps, cc \in CacheControls :
          Step(r, [task[r] EXCEPT !.pc = "hash", !.runs = 1, !.key = k,
                                  !.outputs = outs, !.cache_control = cc])
    /\ UNCHANGED <<storage, files>>

\* A request from a client that stays connected, with the default cache
\* control, started when an earlier request's task has ended and with it
\* everything that task held.
StartNext(r) ==
    /\ task[r].pc \in {"idle", "done"}
    /\ task[r].runs < MaxRuns
    /\ IF r = 1 THEN TRUE ELSE task[r - 1].pc # "idle"
    /\ IF task[r].pc = "done"
          THEN /\ r = 1
               /\ \A q \in Reqs : task[q].pc = "done" /\ task[q].put # "issued"
          ELSE TRUE
    /\ \E k \in Keys, outs \in OutputMaps :
          Step(r, [IdleTask EXCEPT !.pc = "hash", !.runs = task[r].runs + 1,
                                   !.key = k, !.outputs = outs])
    /\ UNCHANGED <<storage, files>>

\* The client side of the reply body goes away (the connection is dropped).
Disconnect(r) ==
    /\ task[r].pc \notin {"idle", "done"}
    /\ task[r].rx
    /\ Step(r, [task[r] EXCEPT !.rx = FALSE])
    /\ UNCHANGED <<storage, files>>

\* ------------------------------------------------------ generate_hash_key
PreprocessorOutput(k) == [status |-> StatusFail, stdout |-> << >>, stderr |-> <<k>>]

\* Hash answering a failed preprocessor with an empty output.
Hash_DropsOutput(r) ==
    /\ task[r].pc = "hash"
    /\ \/ Step(r, [task[r] EXCEPT !.pc = "lookup"])
       \/ Resolve(r, task[r], "Error", NoOutput)
       \/ Resolve(r, task[r], "ErrOther", NoOutput)
    /\ UNCHANGED <<storage, files>>

Hash(r) ==
    /\ Polled(task[r], "hash")
    /\ \/ Step(r, [task[r] EXCEPT !.pc = "lookup"])
       \/ Resolve(r, task[r], "Error", PreprocessorOutput(task[r].key))
       \/ Resolve(r, task[r], "ErrOther", NoOutput)
    /\ UNCHANGED <<storage, files>>

\* ------------------------------------------------------------ the lookup
\* What storage.get(key) may answer.
StorageGet(k) ==
    (IF storage[k] = NoEntry THEN {"Miss"} ELSE {"Hit"}) \cup {"Recache", "Error"}

\* LookupResults without the test of the cache control.
LookupResults_AlwaysGet(t) == StorageGet(t.key) \cup {"Elapsed"}

\* What the lookup future resolves to, under its timeout.
LookupResults(t) ==
    IF t.cache_control = "ForceRecache"
    THEN {"Recache"}
    ELSE StorageGet(t.key) \cup {"Elapsed"}

\* MissTypeOf taking an elapsed timeout for a read error.
MissTypeOf_Swapped(res) ==
    CASE res = "Miss" -> "Normal"
      [] res = "Recache" -> "ForcedRecache"
      [] OTHER -> "CacheReadError"

\* The match on the lookup's result.
MissTypeOf(res) ==
    CASE res = "Miss" -> "Normal"
      [] res = "Recache" -> "ForcedRecache"
      [] res = "Elapsed" -> "TimedOut"
      [] OTHER -> "CacheReadError"

\* drop(entry.get_object("stdout", &mut stdout)): a member the entry lacks
\* leaves the stream empty.
GetStream(member) == IF member.present THEN member.bytes ELSE << >>

Lookup(r) ==
    LET t == task[r]
        called == t.cache_control # "ForceRecache"
    IN
    /\ Polled(t, "lookup")
    /\ \E res \in LookupResults(t) :
          IF res = "Hit"
          THEN Step(r, [t EXCEPT !.pc = "hit", !.get_called = called,
                                 !.lookup = res,
                                 !.entry = storage[t.key], !.todo = DOMAIN t.outputs,
                                 !.output = [status |-> StatusOk,
                                             stdout |-> GetStream(storage[t.key].stdout),
                                             stderr |-> GetStream(storage[t.key].stderr)]])
          ELSE Step(r, [t EXCEPT !.pc = "compile", !.get_called = called,
                                 !.lookup = res, !.miss_type = MissTypeOf(res)])
    /\ UNCHANGED <<storage, files>>

\* ------------------------------------------------- materializing a hit
\* The worker-pool closure of the hit branch, one output at a time (the
\* order is the iteration order of a HashMap, i.e. any order).

\* NamedTempFile::new_in(dir): an empty temp file beside the destination.
HitTmp(r) ==
    LET t == task[r] IN
    /\ Polled(t, "hit") /\ t.tmp = NoTmp /\ t.set_mode = 0
    /\ \E n \in t.todo :
          Step(r, [t EXCEPT !.tmp = [path |-> t.outputs[n], len |-> 0],
                            !.todo = t.todo \ {n}, !.set_mode = n])
    /\ UNCHANGED <<storage, files>>

\* HitCopy writing the blob straight into the destination, chunk by chunk.
HitCopy_InPlace(r) ==
    LET t == task[r] IN
    /\ t.pc = "hit" /\ t.tmp # NoTmp /\ t.tmp.len < BlobLen
    /\ t.set_mode \in DOMAIN t.entry.objs
    /\ files' = [files EXCEPT ![t.tmp.path] =
                    [data |-> t.entry.objs[t.set_mode].data,
                     len |-> t.tmp.len + 1, mode |-> TmpMode]]
    /\ task' = [task EXCEPT ![r] = [t EXCEPT !.tmp.len = t.tmp.len + 1]]
    /\ UNCHANGED <<storage, stats, dist_client, others>>

\* entry.get_object(key, &mut tmp): the blob is copied into the temp file.
HitCopy(r) ==
    LET t == task[r] IN
    /\ Polled(t, "hit") /\ t.tmp # NoTmp /\ t.tmp.len < BlobLen
    /\ t.set_mode \in DOMAIN t.entry.objs
    /\ Step(r, [t EXCEPT !.tmp.len = t.tmp.len + 1])
    /\ UNCHANGED <<storage, files>>

\* tmp.persist(path): the rename; the file at the path is replaced at once.
Persist(tmp, obj) == [data |-> obj.data, len |-> tmp.len, mode |-> TmpMode]

HitPersist(r) ==
    LET t == task[r] IN
    /\ Polled(t, "hit") /\ t.tmp # NoTmp /\ t.tmp.len = BlobLen
    /\ files' = [files EXCEPT ![t.tmp.path] = Persist(t.tmp, t.entry.objs[t.set_mode])]
    /\ Step(r, [t EXCEPT !.tmp = NoTmp])
    /\ UNCHANGED storage

\* set_file_mode(&path, mode), on whatever file is at the path by now; the
\* closure returns Ok(()) after the last output, and the pipeline resolves
\* to the hit.
HitSetMode(r) ==
    LET t == task[r]
        path == t.outputs[t.set_mode]
    IN
    /\ Polled(t, "hit") /\ t.tmp = NoTmp /\ t.set_mode # 0
    /\ files[path] # NoFile
    /\ files' = [files EXCEPT ![path].mode = t.entry.objs[t.set_mode].mode]
    /\ IF t.todo = {}
       THEN Resolve(r, t, "CacheHit", t.output)
       ELSE Step(r, [t EXCEPT !.set_mode = 0])
    /\ UNCHANGED storage

\* HitFail falling back to the compile.
HitFail_Recompile(r) ==
    LET t == task[r] IN
    /\ t.pc = "hit"
    /\ Step(r, [t EXCEPT !.pc = "compile", !.miss_type = "CacheReadError"])
    /\ UNCHANGED <<storage, files>>

\* Any step of the closure fails (no temp file, a member the entry lacks, an
\* I/O error); a temp file not yet persisted is deleted when it is dropped.
HitFail(r) ==
    LET t == task[r] IN
    /\ Polled(t, "hit")
    /\ Resolve(r, t, "ErrOther", NoOutput)
    /\ UNCHANGED <<storage, files>>

\* ------------------------------------------------------------ the compile
CompilerOutput(k, status) ==
    [status |-> status, stdout |-> CompilerStdout(k), stderr |-> CompilerStderr(k)]

\* A successful compiler process writes every declared output.
WriteOutputs(t) ==
    [p \in Paths |->
        IF \E n \in DOMAIN t.outputs : t.outputs[n] = p
        THEN [data |-> t.key, len |-> BlobLen, mode |-> OutMode]
        ELSE files[p]]

\* CompileVerdict without the test of the verdict of cacheability.
CompileVerdict_NoGate(status, cacheable) ==
    IF status # StatusOk THEN "CompileFailed" ELSE "store"

\* The closure run on the compile's result: what becomes of a finished compile.
CompileVerdict(status, cacheable) ==
    IF status # StatusOk THEN "CompileFailed"
    ELSE IF ~cacheable THEN "NotCacheable"
    ELSE "store"

\* dist_or_local_compile without a dist client, then the closure on its result.
Compile(r) ==
    LET t == task[r] IN
    /\ Polled(t, "compile")
    /\ \/ \* generate_compile_commands fails: no compiler is run
          /\ Resolve(r, t, "ErrOther", NoOutput)
          /\ UNCHANGED files
       \/ \* the compiler runs, and execute() fails with its output
          /\ Resolve(r, [t EXCEPT !.compiles = t.compiles + 1], "ErrProcess",
                     CompilerOutput(t.key, StatusFail))
          /\ UNCHANGED files
       \/ \* the compiler runs, and execute() resolves to its output
          \E status \in {StatusOk, StatusFail}, cacheable \in BOOLEAN :
             LET out == CompilerOutput(t.key, status)
                 ran == [t EXCEPT !.compiles = t.compiles + 1,
                                  !.cacheable = cacheable, !.output = out]
                 verdict == CompileVerdict(status, cacheable)
             IN
             /\ files' = IF status = StatusOk THEN WriteOutputs(t) ELSE files
             /\ IF verdict = "store"
                THEN Step(r, [ran EXCEPT !.pc = "store", !.todo = DOMAIN t.outputs,
                                         !.entry = NoEntry])
                ELSE Resolve(r, ran, verdict, out)
    /\ UNCHANGED storage

\* -------------------------------------------------- building the entry
\* The worker-pool closure that zips the outputs: File::open, get_file_mode,
\* put_object, for one output.
PutObject(entry, n, file) ==
    [entry EXCEPT !.objs = [m \in DOMAIN entry.objs \cup {n} |->
                               IF m = n THEN [data |-> file.data, mode |-> file.mode]
                               ELSE entry.objs[m]]]

StoreObject(r) ==
    LET t == task[r] IN
    /\ Polled(t, "store")
    /\ \E n \in t.todo :
          /\ files[t.outputs[n]] # NoFile
          /\ Step(r, [t EXCEPT !.entry = PutObject(t.entry, n, files[t.outputs[n]]),
                               !.todo = t.todo \ {n}])
    /\ UNCHANGED <<storage, files>>

\* Opening or reading an output, or adding a member to the entry, fails:
\* "failed to zip up compiler outputs" / "failed to store ... to cache".
StoreFail(r) ==
    LET t == task[r] IN
    /\ Polled(t, "store")
    /\ Resolve(r, t, "ErrOther", NoOutput)
    /\ UNCHANGED <<storage, files>>

\* The streams are added when they are not empty.
PutStream(bytes) ==
    IF bytes # << >> THEN [present |-> TRUE, bytes |-> bytes] ELSE NoMember

WithStreams(entry, out) ==
    [entry EXCEPT !.stdout = PutStream(out.stdout), !.stderr = PutStream(out.stderr)]

\* The entry is complete: storage.put(key, entry) is called, and the pipeline
\* resolves to CacheMiss carrying the put's future.
StorePut(r) ==
    LET t == task[r] IN
    /\ Polled(t, "store") /\ t.todo = {}
    /\ Resolve(r, [t EXCEPT !.entry = WithStreams(t.entry, t.output), !.put = "issued"],
               "CacheMiss", t.output)
    /\ UNCHANGED <<storage, files>>

\* --------------------------------------------------- the storage backend
\* The backend commits the entry of an issued put, or fails it.
PutStore(r) ==
    /\ task[r].put = "issued"
    /\ storage' = [storage EXCEPT ![task[r].key] = task[r].entry]
    /\ Step(r, [task[r] EXCEPT !.put = "stored", !.entry = NoEntry])
    /\ UNCHANGED files

PutFail(r) ==
    /\ task[r].put = "issued"
    /\ Step(r, [task[r] EXCEPT !.put = "failed", !.entry = NoEntry])
    /\ UNCHANGED <<storage, files>>

\* WriteStats counting a failed write as a write.
WriteStats_AllWrites(s, put) == Inc(s, "cache_writes")

\* The closure on the cache write's result: the counters.
WriteStats(s, put) ==
    IF put = "failed" THEN Inc(s, "cache_write_errors") ELSE Inc(s, "cache_writes")

\* The cache-write future resolves: the closure on its result.
WriteDone(r) ==
    LET t == task[r] IN
    /\ Polled(t, "write")
    /\ t.put \in {"stored", "failed"}
    /\ stats' = WriteStats(stats, t.put)
    /\ task' = [task EXCEPT ![r] = [t EXCEPT !.pc = "done"]]
    /\ UNCHANGED <<storage, files, dist_client, others>>

\* ------------------------------------------------- DistClientContainer
\* create_state: no scheduler url disables the client; otherwise the auth
\* token is missing (fail with a message), the client cannot be created or
\* the scheduler does not answer (retry later), or the client is live.
CreateState(cfg, t) ==
    IF cfg = 0
    THEN {Disabled}
    ELSE {FailWithMessage(cfg),
          RetryCreateAt(cfg, t + DIST_CLIENT_RECREATE_TIMEOUT),
          Some(cfg)}

\* What a call of create_state meets: whether the auth token is loaded,
\* whether the http client is constructed, whether the scheduler answers the
\* first do_get_status.
Envs == [token : BOOLEAN, client : BOOLEAN, status : BOOLEAN]

\* CreateStateWith taking a scheduler that does not answer for a live one.
CreateStateWith_NoStatus(cfg, t, env) ==
    IF cfg = 0 THEN Disabled
    ELSE IF ~env.token THEN FailWithMessage(cfg)
    ELSE IF ~env.client THEN RetryCreateAt(cfg, t + DIST_CLIENT_RECREATE_TIMEOUT)
    ELSE Some(cfg)

\* create_state, step by step: the scheduler url, the auth token
\* (try_or_fail_with_message), the client (try_or_retry_later), the status.
CreateStateWith(cfg, t, env) ==
    IF cfg = 0 THEN Disabled
    ELSE IF ~env.token THEN FailWithMessage(cfg)
    ELSE IF ~env.client THEN RetryCreateAt(cfg, t + DIST_CLIENT_RECREATE_TIMEOUT)
    ELSE IF ~env.status THEN RetryCreateAt(cfg, t + DIST_CLIENT_RECREATE_TIMEOUT)
    ELSE Some(cfg)

\* The record of a call of create_state.
Attempt(cfg, t, env, state) ==
    [cfg |-> cfg, at |-> t, token |-> env.token, client |-> env.client,
     status |-> env.status, state |-> state]

\* MaybeRecreateState recreating only after the instant has passed.
MaybeRecreateState_Late(state, t) ==
    IF state.tag = "RetryCreateAt"
    THEN IF state.at >= t THEN {state} ELSE CreateState(state.cfg, t)
    ELSE {state}

MaybeRecreateState(state, t) ==
    IF state.tag = "RetryCreateAt"
    THEN IF state.at > t THEN {state} ELSE CreateState(state.cfg, t)
    ELSE {state}

\* ClientOf leaving a failed state as it is.
ClientOf_StaysFailed(state, t) ==
    [res |-> CASE state.tag = "Some" -> "client"
               [] state.tag = "FailWithMessage" -> "err"
               [] OTHER -> "none",
     state |-> state]

\* The match of get_client on the state, and the one on its result.
ClientOf(state, t) ==
    [res |-> CASE state.tag = "Some" -> "client"
               [] state.tag = "FailWithMessage" -> "err"
               [] OTHER -> "none",
     state |-> IF state.tag = "FailWithMessage"
               THEN RetryCreateAt(state.cfg, t - 1)
               ELSE state]

GetClient(state, t) == {ClientOf(s, t) : s \in MaybeRecreateState(state, t)}

\* A Compile request reaches start_compile_task, which calls get_client.
CallGetClient ==
    /\ \E g \in GetClient(dist_client, now) :
          /\ dist_client' = g.state
          /\ got' = [res |-> g.res, time |-> now]
    /\ UNCHANGED <<task, storage, files, stats, now, detect, apart>>

\* reset_state is called (by the server on an http client error).
CallResetState ==
    /\ dist_client' = ResetState(dist_client, now)
    /\ UNCHANGED <<task, storage, files, stats, now, got, detect, apart>>

\* StatusOf bringing a state whose retry is due up to date first.
StatusOf_Recreating(state, t) ==
    {[res |-> "NotConnected", state |-> s] : s \in MaybeRecreateState(state, t)}

\* The match of get_status on the state: the DistInfo it answers.  Only a
\* live client is asked for the scheduler's status.
StatusOf(state, t) ==
    {[res |-> res, state |-> state] :
        res \in CASE state.tag = "Disabled" -> {"Disabled"}
                 [] state.tag = "Some" -> {"SchedulerStatus", "NotConnected"}
                 [] OTHER -> {"NotConnected"}}

\* A DistStatus request asks for the status of the dist client.
CallGetStatus ==
    /\ \E g \in StatusOf(dist_client, now) :
          /\ dist_client' = g.state
          /\ got' = [res |-> g.res, time |-> now]
    /\ UNCHANGED <<task, storage, files, stats, now, detect, apart>>

\* Time passes.
Tick ==
    /\ \E d \in {1, DIST_CLIENT_RECREATE_TIMEOUT} :
          /\ now + d <= MaxNow
          /\ now' = now + d
    /\ UNCHANGED <<task, storage, files, stats, dist_client, got, detect, apart>>

\* DistClientContainer::new, or new_disabled.
InitDistClient ==
    /\ task = [r \in Reqs |-> IdleTask]
    /\ storage = [k \in Keys |-> NoEntry]
    /\ files = [p \in Paths |-> NoFile]
    /\ stats = ZeroStats
    /\ now = 1
    /\ \E cfg \in Configs :
          /\ dist_client \in CreateState(cfg, now)
          /\ created = [NoAttempt EXCEPT !.cfg = cfg, !.at = now]
    /\ got = NoCall
    /\ NoDetection
    /\ LoopStart(0)
    /\ link = [c \in Links |-> NoLink]
    /\ NothingAside
    /\ exes = [p \in ExePaths |-> [mtime |-> 1, kind |-> "compiler"]]

NextDistClient ==
    \/ CallGetClient
    \/ CallResetState
    \/ CallGetStatus
    \/ Tick

SpecDistClient == InitDistClient /\ [][NextDistClient]_vars

\* The container with its calls of create_state on record.
\* get_client: maybe_recreate_state calls create_state when the state is a
\* retry whose instant is not ahead.
CallGetClientWith ==
    LET due == dist_client.tag = "RetryCreateAt" /\ ~(dist_client.at > now) IN
    /\ \E env \in Envs :
          LET state == IF due THEN CreateStateWith(dist_client.cfg, now, env)
                       ELSE dist_client
              g == ClientOf(state, now)
          IN
          /\ dist_client' = g.state
          /\ got' = [res |-> g.res, time |-> now]
          /\ created' = IF due THEN Attempt(dist_client.cfg, now, env, state)
                        ELSE created
    /\ UNCHANGED <<task, storage, files, stats, now, detect, loop, link, aside>>

\* DistClientContainer::new(config, pool)
InitCreate ==
    /\ task = [r \in Reqs |-> IdleTask]
    /\ storage = [k \in Keys |-> NoEntry]
    /\ files = [p \in Paths |-> NoFile]
    /\ stats = ZeroStats
    /\ now = 1
    /\ got = NoCall
    /\ NoDetection
    /\ exes = [p \in ExePaths |-> [mtime |-> 1, kind |-> "compiler"]]
    /\ \E cfg \in Configs, env \in Envs :
          /\ dist_client = CreateStateWith(cfg, now, env)
          /\ created = Attempt(cfg, now, env, dist_client)
    /\ LoopStart(0)
    /\ link = [c \in Links |-> NoLink]
    /\ NothingAside

NextCreate ==
    \/ CallGetClientWith
    \/ Tick

SpecCreate == InitCreate /\ [][NextCreate]_vars

\* ------------------- dist_or_local_compile with the dist-client feature
\* An error is the chain of its kinds, the outermost first.  The kinds a call
\* of the dist client fails with:
ErrorKinds == {"Other", "HttpClientError"}

\* Error::from(message)
Msg(message) == <<message>>

\* chain_err(|| message): the error becomes the cause of a new error whose
\* kind is the message.
ChainErr(e, message) == Msg(message) \o e

\* A Compile request reaches start_compile_task of a server built with the
\* dist-client feature: get_client is called while the pipeline is built, and
\* its result is moved into the pipeline.  The requests follow one another:
\* one starts when the task of the one before has ended.
StartDist(r) ==
    /\ task[r].pc = "idle"
    /\ IF r = 1 THEN TRUE ELSE task[r - 1].pc = "done"
    /\ \E k \in {j \in Keys : j <= Cardinality(KeysInUse) + 1},
          outs \in OutputMaps, cc \in CacheControls,
          g \in GetClient(dist_client, now) :
          /\ task' = [task EXCEPT ![r] =
                         [task[r] EXCEPT !.pc = "hash", !.runs = 1, !.key = k,
                                         !.outputs = outs, !.cache_control = cc,
                                         !.dist = g.res]]
          /\ dist_client' = g.state
          /\ got' = [res |-> g.res, time |-> now]
    /\ UNCHANGED <<storage, files, stats, now, detect, apart>>

\* The closure of get_cached_or_compile on the result of the compile.
Compiled(r, t, status, out) ==
    LET ran == [t EXCEPT !.output = out]
        verdict == CompileVerdict(status, t.cacheable)
    IN
    IF verdict = "store"
    THEN Step(r, [ran EXCEPT !.pc = "store", !.todo = DOMAIN t.outputs,
                             !.entry = NoEntry])
    ELSE Resolve(r, ran, verdict, out)

\* compile_cmd.execute(&creator): the compiler runs on this machine.
Execute(r, t) ==
    LET ran == [t EXCEPT !.compiles = t.compiles + 1] IN
    \/ /\ Resolve(r, ran, "ErrProcess", CompilerOutput(t.key, StatusFail))
       /\ UNCHANGED files
    \/ \E status \in {StatusOk, StatusFail} :
          /\ files' = IF status = StatusOk THEN WriteOutputs(t) ELSE files
          /\ Compiled(r, ran, status, CompilerOutput(t.key, status))

\* A future of the offload chain resolves to the error e: the and_then
\* closures after it are skipped and the or_else is next.
Failed(r, t, e) == Step(r, [t EXCEPT !.pc = "or_else", !.error = e])

\* DistOrLocal compiling locally when get_client returned an error.
DistOrLocal_FailOpen(r) ==
    LET t == task[r] IN
    /\ Polled(t, "compile")
    /\ \/ /\ Resolve(r, t, "ErrOther", NoOutput)
          /\ UNCHANGED files
       \/ /\ t.dist \in {"none", "err"}
          /\ \E cacheable \in BOOLEAN :
                Execute(r, [t EXCEPT !.cacheable = cacheable, !.dist_type = "NoDist"])
       \/ /\ t.dist = "client"
          /\ \E cacheable \in BOOLEAN :
                \/ Step(r, [t EXCEPT !.cacheable = cacheable, !.pc = "put_toolchain"])
                \/ Failed(r, [t EXCEPT !.cacheable = cacheable],
                          Msg("Could not create distributed compile command"))
          /\ UNCHANGED files
    /\ UNCHANGED storage

\* DistOrLocal going on to the offload without a client.
DistOrLocal_Offload(r) ==
    LET t == task[r] IN
    /\ Polled(t, "compile")
    /\ \/ /\ Resolve(r, t, "ErrOther", NoOutput)
          /\ UNCHANGED files
       \/ /\ t.dist = "err"
          /\ Resolve(r, t, "ErrOther", NoOutput)
          /\ UNCHANGED files
       \/ /\ t.dist \in {"none", "client"}
          /\ \E cacheable \in BOOLEAN :
                \/ Step(r, [t EXCEPT !.cacheable = cacheable, !.pc = "put_toolchain"])
                \/ Failed(r, [t EXCEPT !.cacheable = cacheable],
                          Msg("Could not create distributed compile command"))
          /\ UNCHANGED files
    /\ UNCHANGED storage

\* The head of dist_or_local_compile: the compile commands, then the match on
\* the result of get_client.
DistOrLocal(r) ==
    LET t == task[r] IN
    /\ Polled(t, "compile")
    /\ \/ \* generate_compile_commands fails
          /\ Resolve(r, t, "ErrOther", NoOutput)
          /\ UNCHANGED files
       \/ \* Err(e): the error of get_client is the pipeline's error
          /\ t.dist = "err"
          /\ Resolve(r, t, "ErrOther", NoOutput)
          /\ UNCHANGED files
       \/ \* Ok(None): compiling locally
          /\ t.dist = "none"
          /\ \E cacheable \in BOOLEAN :
                Execute(r, [t EXCEPT !.cacheable = cacheable, !.dist_type = "NoDist"])
       \/ \* Ok(Some(dc)): the dist compile command and the packagers
          /\ t.dist = "client"
          /\ \E cacheable \in BOOLEAN :
                \/ Step(r, [t EXCEPT !.cacheable = cacheable, !.pc = "put_toolchain"])
                \/ Failed(r, [t EXCEPT !.cacheable = cacheable],
                          Msg("Could not create distributed compile command"))
          /\ UNCHANGED files
    /\ UNCHANGED storage

\* The call `call` of the dist client has been made and came to res.
Called(t, call, res) ==
    [t EXCEPT !.calls = Append(t.calls, [call |-> call, res |-> res])]

\* dist_client.put_toolchain
PutToolchain(r) ==
    LET t == task[r] IN
    /\ Polled(t, "put_toolchain")
    /\ \/ Step(r, [Called(t, "put_toolchain", "Ok") EXCEPT !.pc = "alloc_job"])
       \/ \E kind \in ErrorKinds :
             Failed(r, Called(t, "put_toolchain", "Err"), <<kind>>)
    /\ UNCHANGED <<storage, files>>

\* AllocJob running the job without submitting the toolchain asked for.
AllocJob_NoSubmit(r) ==
    LET t == task[r] IN
    /\ Polled(t, "alloc_job")
    /\ \/ \E res \in {"NeedToolchain", "Success"} :
             Step(r, [Called(t, "do_alloc_job", res) EXCEPT !.pc = "run_job"])
       \/ Failed(r, Called(t, "do_alloc_job", "Fail"),
                 ChainErr(Msg("Failed to allocate job"), "msg"))
       \/ \E kind \in ErrorKinds :
             Failed(r, Called(t, "do_alloc_job", "Err"), <<kind>>)
    /\ UNCHANGED <<storage, files>>

\* dist_client.do_alloc_job and the match on its result.
AllocJob(r) ==
    LET t == task[r] IN
    /\ Polled(t, "alloc_job")
    /\ \/ \* Success { need_toolchain: true }
          Step(r, [Called(t, "do_alloc_job", "NeedToolchain")
                      EXCEPT !.pc = "submit_toolchain"])
       \/ \* Success { need_toolchain: false }
          Step(r, [Called(t, "do_alloc_job", "Success") EXCEPT !.pc = "run_job"])
       \/ \* Fail { msg }
          Failed(r, Called(t, "do_alloc_job", "Fail"),
                 ChainErr(Msg("Failed to allocate job"), "msg"))
       \/ \E kind \in ErrorKinds :
             Failed(r, Called(t, "do_alloc_job", "Err"), <<kind>>)
    /\ UNCHANGED <<storage, files>>

\* dist_client.do_submit_toolchain(..).and_then(..).chain_err(..)
SubmitToolchain(r) ==
    LET t == task[r] IN
    /\ Polled(t, "submit_toolchain")
    /\ \/ Step(r, [Called(t, "do_submit_toolchain", "Success")
                      EXCEPT !.pc = "run_job"])
       \/ \* JobNotFound, CannotCache
          \E res \in {"JobNotFound", "CannotCache"} :
             Failed(r, Called(t, "do_submit_toolchain", res),
                    ChainErr(Msg("Job not found on server"),
                             "Could not submit toolchain"))
       \/ \E kind \in ErrorKinds :
             Failed(r, Called(t, "do_submit_toolchain", "Err"),
                    ChainErr(<<kind>>, "Could not submit toolchain"))
    /\ UNCHANGED <<storage, files>>

\* dist_client.do_run_job(..).map(..).chain_err(..)
RunJob(r) ==
    LET t == task[r] IN
    /\ Polled(t, "run_job")
    /\ \/ \* RunJobResult::Complete(jc)
          Step(r, [Called(t, "do_run_job", "Complete") EXCEPT !.pc = "fetch"])
       \/ \* RunJobResult::JobNotFound
          Failed(r, Called(t, "do_run_job", "JobNotFound"),
                 Msg("Job not found on server"))
       \/ \E kind \in ErrorKinds :
             Failed(r, Called(t, "do_run_job", "Err"),
                    ChainErr(<<kind>>, "could not run distributed compilation job"))
    /\ UNCHANGED <<storage, files>>

\* Cleanup leaving every fetched file where it is.
Cleanup_Nothing(t, pushed, kept) ==
    [p \in Paths |->
        IF p \in pushed
        THEN [data |-> t.key, len |-> BlobLen, mode |-> OutMode]
        ELSE files[p]]

\* try_or_cleanup!: fs::remove_file on each path pushed to output_paths so
\* far.  A removal that fails is logged and nothing more: the paths in kept
\* stay, with what was fetched into them.
Cleanup(t, pushed, kept) ==
    [p \in Paths |->
        IF p \in kept THEN [data |-> t.key, len |-> BlobLen, mode |-> OutMode]
        ELSE IF p \in pushed THEN NoFile
        ELSE files[p]]

\* The outputs of the finished job are written to their local paths and
\* rewritten; when a path cannot be transformed, a file cannot be created or
\* written, or the rewriter fails, the paths pushed so far are removed.
Fetch(r) ==
    LET t == task[r] IN
    /\ Polled(t, "fetch")
    /\ \/ \E status \in {StatusOk, StatusFail} :
             /\ files' = IF status = StatusOk THEN WriteOutputs(t) ELSE files
             /\ Compiled(r, [t EXCEPT !.dist_type = "Ok", !.calls = << >>], status,
                         CompilerOutput(t.key, status))
       \/ \E names \in SUBSET (DOMAIN t.outputs) :
             LET pushed == {t.outputs[n] : n \in names} IN
             \E kept \in SUBSET pushed :
                /\ files' = Cleanup(t, pushed, kept)
                /\ Failed(r, [t EXCEPT !.pushed = pushed, !.kept = kept],
                          ChainErr(<<"Other">>, "Failed to write output"))
    /\ UNCHANGED storage

\* OrElse taking every error of the offload for fatal.
OrElse_Fatal(r) ==
    LET t == task[r] IN
    /\ Polled(t, "or_else")
    /\ IF Head(t.error) = "HttpClientError"
       THEN Resolve(r, t, "ErrHttp", NoOutput)
       ELSE Resolve(r, t, "ErrOther", NoOutput)
    /\ UNCHANGED <<storage, files>>

\* The or_else on the offload's error: an error whose kind is HttpClientError
\* is the pipeline's error; with any other the local compile is next, with
\* DistType::Error.
OrElse(r) ==
    LET t == task[r] IN
    /\ Polled(t, "or_else")
    /\ IF Head(t.error) = "HttpClientError"
       THEN Resolve(r, t, "ErrHttp", NoOutput)
       ELSE Step(r, [t EXCEPT !.pc = "fallback", !.dist_type = "Error",
                              !.error = << >>, !.calls = << >>,
                              !.pushed = {}, !.kept = {}])
    /\ UNCHANGED <<storage, files>>

\* The local compile the or_else falls back to.
Fallback(r) ==
    /\ Polled(task[r], "fallback")
    /\ Execute(r, task[r])
    /\ UNCHANGED storage

\* Time passes after a request has ended, up to the instant of the retry:
\* the pipeline reads the clock in get_client only.
Elapse ==
    /\ \A r \in Reqs : task[r].pc \in {"idle", "done"}
    /\ \E r \in Reqs : task[r].pc = "done"
    /\ dist_client.tag = "RetryCreateAt"
    /\ now < dist_client.at /\ dist_client.at <= MaxNow
    /\ now' = dist_client.at
    /\ UNCHANGED <<task, storage, files, stats, dist_client, got, detect, apart>>

\* The server built with the dist-client feature.
InitDist ==
    /\ task = [r \in Reqs |-> IdleTask]
    /\ storage = [k \in Keys |-> NoEntry]
    /\ files = [p \in Paths |-> NoFile]
    /\ stats = ZeroStats
    /\ now = 1
    /\ dist_client \in UNION {CreateState(cfg, now) : cfg \in Configs}
    /\ got = NoCall
    /\ NoDetection
    /\ NothingApart
    /\ exes = [p \in ExePaths |-> [mtime |-> 1, kind |-> "compiler"]]

NextDist ==
    \/ Elapse
    \/ \E r \in Reqs :
        \/ StartDist(r)
        \/ Hash(r)
        \/ Lookup(r)
        \/ HitTmp(r)
        \/ HitCopy(r)
        \/ HitPersist(r)
        \/ HitSetMode(r)
        \/ HitFail(r)
        \/ DistOrLocal(r)
        \/ PutToolchain(r)
        \/ AllocJob(r)
        \/ SubmitToolchain(r)
        \/ RunJob(r)
        \/ Fetch(r)
        \/ OrElse(r)
        \/ Fallback(r)
        \/ StoreObject(r)
        \/ StoreFail(r)
        \/ StorePut(r)
        \/ PutStore(r)
        \/ PutFail(r)
        \/ WriteDone(r)

SpecDist == InitDist /\ [][NextDist]_vars

\* ------------------------------------------- handle_compile, compiler_info
\* metadata(&path): the modification time of the executable.
Metadata(p) == exes[p].mtime

\* CompilersGet with no use for the cached non-results.
CompilersGet_SomeOnly(entry, mtime) ==
    CASE entry.tag = "Some" /\ entry.mtime = mtime ->
            [hit |-> TRUE, compiler |-> entry.c]
      [] OTHER -> [hit |-> FALSE, compiler |-> 0]

\* The match on compilers.get(&path): a compiler is a hit only if the mtime
\* matches, a cached non-result is a hit.  Compiler 0 is no compiler.
CompilersGet(entry, mtime) ==
    CASE entry.tag = "Some" /\ entry.mtime = mtime ->
            [hit |-> TRUE, compiler |-> entry.c]
      [] entry.tag = "None" -> [hit |-> TRUE, compiler |-> 0]
      [] OTHER -> [hit |-> FALSE, compiler |-> 0]

\* get_compiler_info(..).ok(): the probe runs the executable as it is when
\* the probe runs; a compiler is known by the version it was probed at.  The
\* detection of a compiler can fail.
GetCompilerInfo(p) ==
    IF exes[p].kind = "compiler" THEN {exes[p].mtime, 0} ELSE {0}

\* check_compiler: the response and the counter, by the compiler and by what
\* parse_arguments makes of the command line.
CheckCompiler(compiler) ==
    IF compiler = 0
    THEN {[answer |-> "UnsupportedCompiler", counter |-> "requests_unsupported_compiler"]}
    ELSE {[answer |-> "CompileStarted", counter |-> "requests_executed"],
          [answer |-> "UnhandledCompile", counter |-> "requests_not_cacheable"],
          [answer |-> "UnhandledCompile", counter |-> "requests_not_compile"]}

\* The requests answered so far.
Answered ==
    stats.requests_unsupported_compiler + stats.requests_executed
       + stats.requests_not_cacheable + stats.requests_not_compile

\* check_compiler answers the request of client i.
Checked(i, path, mtime, compiler) ==
    \E c \in CheckCompiler(compiler) :
        /\ info' = [info EXCEPT ![i] = [pc |-> "answered", path |-> path,
                                        mtime |-> mtime, probed |-> info[i].probed,
                                        answer |-> c.answer]]
        /\ stats' = Inc(stats, c.counter)

\* A Compile request of client i for the executable p reaches handle_compile:
\* compiler_info reads the mtime and looks the path up; on a hit
\* check_compiler runs at once, on a miss the detection is started.
CompilerInfo(i) ==
    /\ info[i].pc = "idle"
    /\ Answered + Cardinality({j \in Clients : info[j].pc = "probing"}) < MaxRequests
    /\ \E p \in ExePaths :
          LET mtime == Metadata(p)
              result == CompilersGet(compilers[p], mtime)
          IN
          IF result.hit
          THEN Checked(i, p, mtime, result.compiler)
          ELSE /\ info' = [info EXCEPT ![i] = [pc |-> "probing", path |-> p,
                                               mtime |-> mtime, probed |-> TRUE,
                                               answer |-> "none"]]
               /\ UNCHANGED stats
    /\ UNCHANGED <<compilers, recorded, exes>>
    /\ UNCHANGED <<task, storage, files, dist_client, now, got, apart>>

\* The detection started for client i is over: the closure inserts its
\* result with the mtime read before it started, then check_compiler runs.
Detected(i) ==
    /\ info[i].pc = "probing"
    /\ \E c \in GetCompilerInfo(info[i].path) :
          /\ compilers' = [compilers EXCEPT ![info[i].path] =
                              IF c = 0 THEN CachedNone
                              ELSE CachedSome(c, info[i].mtime)]
          /\ recorded' = [recorded EXCEPT ![info[i].path] = info[i].mtime]
          /\ Checked(i, info[i].path, info[i].mtime, c)
    /\ UNCHANGED exes
    /\ UNCHANGED <<task, storage, files, dist_client, now, got, apart>>

\* The response is on its way to the client, whose next request may come.
Responded(i) ==
    /\ info[i].pc = "answered"
    /\ info' = [info EXCEPT ![i] = IdleInfo]
    /\ UNCHANGED <<compilers, recorded, exes>>
    /\ UNCHANGED <<task, storage, files, stats, dist_client, now, got, apart>>

\* The executable at p is replaced: a new modification time, and a compiler
\* or not.
Modify(p) ==
    /\ exes[p].mtime < MaxMtime
    /\ \E kind \in ExeKinds :
          exes' = [exes EXCEPT ![p] = [mtime |-> exes[p].mtime + 1, kind |-> kind]]
    /\ UNCHANGED <<compilers, recorded, info>>
    /\ UNCHANGED <<task, storage, files, stats, dist_client, now, got, apart>>

InitDetect ==
    /\ task = [r \in Reqs |-> IdleTask]
    /\ storage = [k \in Keys |-> NoEntry]
    /\ files = [p \in Paths |-> NoFile]
    /\ stats = ZeroStats
    /\ dist_client = Disabled
    /\ now = 1
    /\ got = NoCall
    /\ NoDetection
    /\ NothingApart
    /\ exes \in [ExePaths -> [mtime : {1}, kind : ExeKinds]]

NextDetect ==
    \/ \E i \in Clients : CompilerInfo(i) \/ Detected(i) \/ Responded(i)
    \/ \E p \in ExePaths : Modify(p)

SpecDetect == InitDetect /\ [][NextDetect]_vars

\* ------------------------------------------------ SccacheServer::_run
\* The messages of the services: their kind, and when they were sent.
ServerMessage(kind) == [kind |-> kind, at |-> now]

\* self.tx.clone().start_send(message): a clone of the sender has a slot of
\* its own, so the message is queued whenever the receiver is alive.
StartSend(ch, messages) ==
    IF ch.rx THEN [ch EXCEPT !.queue = ch.queue \o messages] ELSE ch

\* The requests but Compile and Shutdown, and their responses.
PlainRequests == {"GetStats", "DistStatus", "ZeroStats"}
ResponseTo(request) == IF request = "DistStatus" THEN "DistStatus" ELSE "Stats"

\* The loop of ShutdownOrInactive::poll over the messages queued: a Shutdown
\* ends the poll, a Request arms the timer anew unless the timeout is zero.
RECURSIVE Drain(_, _, _)
Drain(queue, timeout, dur) ==
    IF queue = << >> THEN [shutdown |-> FALSE, queue |-> queue, timeout |-> timeout]
    ELSE IF Head(queue).kind = "Shutdown"
    THEN [shutdown |-> TRUE, queue |-> Tail(queue), timeout |-> timeout]
    ELSE Drain(Tail(queue), IF dur # 0 THEN now + dur ELSE timeout, dur)

\* Delay::poll: the delay is over when its deadline is not ahead.
Elapsed(timeout) == timeout # 0 /\ timeout <= now

\* ShutdownOrInactive looking at the timer before the messages.
ShutdownOrInactive_TimerFirst(s, ch) ==
    LET d == Drain(ch.queue, s.timeout, s.timeout_dur) IN
    IF Elapsed(s.timeout) THEN [ready |-> TRUE, why |-> "idle", queue |-> ch.queue,
                                timeout |-> s.timeout]
    ELSE IF d.shutdown THEN [ready |-> TRUE, why |-> "shutdown", queue |-> d.queue,
                             timeout |-> d.timeout]
    ELSE [ready |-> FALSE, why |-> "none", queue |-> d.queue, timeout |-> d.timeout]

\* ShutdownOrInactive::poll: the messages first, then the timer.
ShutdownOrInactive(s, ch) ==
    LET d == Drain(ch.queue, s.timeout, s.timeout_dur) IN
    IF d.shutdown THEN [ready |-> TRUE, why |-> "shutdown", queue |-> d.queue,
                        timeout |-> d.timeout]
    ELSE IF Elapsed(d.timeout) THEN [ready |-> TRUE, why |-> "idle", queue |-> d.queue,
                                     timeout |-> d.timeout]
    ELSE [ready |-> FALSE, why |-> "none", queue |-> d.queue, timeout |-> d.timeout]

\* ShutdownOrInactive has been woken: a message is queued or the delay is over.
Woken == chan.queue # << >> \/ Elapsed(sup.timeout)

\* Drop leaving the blocker where it is.
Drop_Silent(w, n) == w

\* Drop for ActiveInfo, with n instances left: the last one takes the task
\* parked in blocker, if there is one, and notifies it.
Drop(w, n) ==
    IF n = 0 /\ w.blocker THEN [blocker |-> FALSE, woken |-> TRUE]
    ELSE w

\* select_all resolves with a value: block_on returns, the futures left over
\* are dropped (the accept loop with its service, the receiver with its
\* messages) and the wait for the services starts: the second block_on polls
\* its future at once.
Resolved(why, timeout) ==
    /\ sup' = [sup EXCEPT !.phase = "waiting", !.why = why, !.timeout = timeout,
                          !.since = now]
    /\ chan' = [rx |-> FALSE, queue |-> << >>]
    /\ active' = active - 1
    /\ waiter' = [Drop(waiter, active - 1) EXCEPT !.woken = TRUE]

\* The task of _run is polled.
Poll ==
    LET p == ShutdownOrInactive(sup, chan) IN
    /\ sup.phase = "running" /\ Woken
    /\ IF p.ready
       THEN Resolved(p.why, p.timeout)
       ELSE /\ sup' = [sup EXCEPT !.timeout = p.timeout]
            /\ chan' = [chan EXCEPT !.queue = p.queue]
            /\ UNCHANGED <<active, waiter>>
    /\ UNCHANGED <<conn, inflight>>
    /\ UNCHANGED <<task, storage, files, stats, dist_client, now, got, detect, created, link, probe>>

\* The shutdown future passed to run resolves, with a value or an error: run
\* hands _run shutdown.then(|_| Ok(())).
Signal ==
    /\ sup.phase = "running"
    /\ Resolved("signal", sup.timeout)
    /\ UNCHANGED <<conn, inflight>>
    /\ UNCHANGED <<task, storage, files, stats, dist_client, now, got, detect, created, link, probe>>

\* ShutdownOrInactive::poll comes to its timer, which fails: select_all
\* resolves with the error and _run returns it at once.
TimerError ==
    LET p == ShutdownOrInactive(sup, chan) IN
    /\ sup.phase = "running"
    /\ p.timeout # 0 /\ p.why # "shutdown"
    /\ sup' = [sup EXCEPT !.phase = "exited", !.why = "timer error", !.since = now]
    /\ UNCHANGED <<chan, conn, active, inflight>>
    /\ UNCHANGED <<task, storage, files, stats, dist_client, now, got, detect, created, link, aside>>

\* The error of listener.incoming() taken for a value: the wait for the
\* services starts.
AcceptError_Graceful ==
    /\ sup.phase = "running"
    /\ sup' = [sup EXCEPT !.phase = "waiting", !.why = "accept error", !.since = now]
    /\ chan' = [rx |-> FALSE, queue |-> << >>]
    /\ active' = active - 1
    /\ waiter' = [Drop(waiter, active - 1) EXCEPT !.woken = TRUE]
    /\ UNCHANGED <<conn, inflight>>
    /\ UNCHANGED <<task, storage, files, stats, dist_client, now, got, detect, created, link, probe>>

\* listener.incoming() fails: select_all resolves with the error and _run
\* returns it at once.
AcceptError ==
    /\ sup.phase = "running"
    /\ sup' = [sup EXCEPT !.phase = "exited", !.why = "accept error", !.since = now]
    /\ UNCHANGED <<chan, conn, active, inflight>>
    /\ UNCHANGED <<task, storage, files, stats, dist_client, now, got, detect, created, link, aside>>

\* The accept loop: service.clone().bind(socket) is spawned.
Accept(c) ==
    /\ sup.phase = "running"
    /\ conn[c].state = "none"
    /\ IF c = 1 THEN TRUE ELSE conn[c - 1].state # "none"
    /\ conn' = [conn EXCEPT ![c].state = "open"]
    /\ active' = active + 1
    /\ UNCHANGED <<sup, chan, inflight>>
    /\ UNCHANGED <<task, storage, files, stats, dist_client, now, got, detect, created, link, aside>>

\* call() spawning a compile task that holds no clone of the service.
CallCompile_Borrowed(c) ==
    /\ sup.phase # "exited"
    /\ conn[c].state = "open"
    /\ stats.compile_requests < MaxCompiles /\ inflight < MaxCompiles
    /\ Len(chan.queue) < MaxQueue
    /\ chan' = StartSend(chan, <<ServerMessage("Request")>>)
    /\ stats' = Inc(stats, "compile_requests")
    /\ \E reply \in {"CompileStarted", "UnhandledCompile", "UnsupportedCompiler"} :
          /\ conn' = [conn EXCEPT ![c].reply = reply]
          /\ IF reply = "CompileStarted"
             THEN inflight' = inflight + 1 /\ UNCHANGED active
             ELSE UNCHANGED <<inflight, active>>
    /\ UNCHANGED sup
    /\ UNCHANGED <<task, storage, files, dist_client, now, got, detect, created, link, aside>>

\* call(): a Compile request.  A Request message is sent, compile_requests is
\* counted, and the request is answered; with CompileStarted a task that
\* holds a clone of the service has been spawned.
CallCompile(c) ==
    /\ sup.phase # "exited"
    /\ conn[c].state = "open"
    /\ stats.compile_requests < MaxCompiles /\ inflight < MaxCompiles
    /\ Len(chan.queue) < MaxQueue
    /\ chan' = StartSend(chan, <<ServerMessage("Request")>>)
    /\ stats' = Inc(stats, "compile_requests")
    /\ \E reply \in {"CompileStarted", "UnhandledCompile", "UnsupportedCompiler"} :
          /\ conn' = [conn EXCEPT ![c].reply = reply]
          /\ IF reply = "CompileStarted"
             THEN inflight' = inflight + 1 /\ active' = active + 1
             ELSE UNCHANGED <<inflight, active>>
    /\ UNCHANGED sup
    /\ UNCHANGED <<task, storage, files, dist_client, now, got, detect, created, link, aside>>

\* call(): GetStats, DistStatus, ZeroStats.
CallPlain(c) ==
    /\ sup.phase # "exited"
    /\ conn[c].state = "open"
    /\ Len(chan.queue) < MaxQueue
    /\ chan' = StartSend(chan, <<ServerMessage("Request")>>)
    /\ \E request \in PlainRequests :
          /\ stats' = IF request = "ZeroStats" THEN ZeroStats ELSE stats
          /\ conn' = [conn EXCEPT ![c].reply = ResponseTo(request)]
    /\ UNCHANGED <<sup, active, inflight>>
    /\ UNCHANGED <<task, storage, files, dist_client, now, got, detect, created, link, aside>>

\* call() answering ShuttingDown without a Shutdown message.
CallShutdown_Silent(c) ==
    /\ sup.phase # "exited"
    /\ conn[c].state = "open"
    /\ Len(chan.queue) < MaxQueue
    /\ chan' = StartSend(chan, <<ServerMessage("Request")>>)
    /\ conn' = [conn EXCEPT ![c].reply = "ShuttingDown"]
    /\ UNCHANGED <<sup, active, inflight, stats>>
    /\ UNCHANGED <<task, storage, files, dist_client, now, got, detect, created, link, aside>>

\* call(): Shutdown.  After the Request message a Shutdown message is sent,
\* and the response is ShuttingDown with the server's info.
CallShutdown(c) ==
    /\ sup.phase # "exited"
    /\ conn[c].state = "open"
    /\ Len(chan.queue) < MaxQueue
    /\ chan' = StartSend(chan, <<ServerMessage("Request"), ServerMessage("Shutdown")>>)
    /\ conn' = [conn EXCEPT ![c].reply = "ShuttingDown"]
    /\ UNCHANGED <<sup, active, inflight, stats>>
    /\ UNCHANGED <<task, storage, files, dist_client, now, got, detect, created, link, aside>>

\* The client closes the connection: the stream ends, the future of bind is
\* over and its service is dropped.
Close(c) ==
    /\ sup.phase # "exited"
    /\ conn[c].state = "open"
    /\ conn' = [conn EXCEPT ![c].state = "closed"]
    /\ active' = active - 1
    /\ waiter' = Drop(waiter, active - 1)
    /\ UNCHANGED <<sup, chan, inflight>>
    /\ UNCHANGED <<task, storage, files, stats, dist_client, now, got, detect, created, link, probe>>

\* A compile task is over, the cache write included: its service is dropped.
TaskOver ==
    /\ sup.phase # "exited"
    /\ inflight > 0
    /\ inflight' = inflight - 1
    /\ active' = active - 1
    /\ waiter' = Drop(waiter, active - 1)
    /\ UNCHANGED <<sup, chan, conn>>
    /\ UNCHANGED <<task, storage, files, stats, dist_client, now, got, detect, created, link, probe>>

\* WaitUntilZero::poll with no cap on the wait.
WaitOver_NoTimeout(s, n) == IF n = 0 THEN "done" ELSE "waiting"

\* WaitUntilZero::poll under Timeout: the wait is over when no instance of
\* ActiveInfo is left, or when the grace period has elapsed.
WaitOver(s, n) ==
    IF n = 0 THEN "done"
    ELSE IF s.since + GracePeriod <= now THEN "timed out"
    ELSE "waiting"

\* The task of the second block_on is polled when it has been woken, by
\* block_on or by the last drop, or when the delay of its Timeout is over.
WaitPolled == waiter.woken \/ WaitOver(sup, 1) = "timed out"

\* WaitUntilZero::poll finds an instance left: the task parks in blocker.
Park ==
    /\ sup.phase = "waiting" /\ WaitPolled
    /\ WaitOver(sup, active) = "waiting"
    /\ waiter' = [blocker |-> TRUE, woken |-> FALSE]
    /\ UNCHANGED <<sup, chan, conn, active, inflight>>
    /\ UNCHANGED <<task, storage, files, stats, dist_client, now, got, detect, created, link, probe>>

\* The second block_on returns, and _run with it.
Exit ==
    /\ sup.phase = "waiting" /\ WaitPolled
    /\ WaitOver(sup, active) # "waiting"
    /\ sup' = [sup EXCEPT !.phase = "exited", !.why = WaitOver(sup, active)]
    /\ UNCHANGED <<chan, conn, active, inflight>>
    /\ UNCHANGED <<task, storage, files, stats, dist_client, now, got, detect, created, link, aside>>

\* A second passes.  The event loop runs what is ready before it sleeps: no
\* time passes while _run's task has been woken and not polled.
Sleep ==
    /\ now < MaxClock
    /\ \/ sup.phase = "running" /\ ~Woken
       \/ sup.phase = "waiting" /\ ~WaitPolled
    /\ now' = now + 1
    /\ UNCHANGED <<task, storage, files, stats, dist_client, got, detect, apart>>

\* The server is run with an idle timeout, zero or not.
InitServer ==
    /\ task = [r \in Reqs |-> IdleTask]
    /\ storage = [k \in Keys |-> NoEntry]
    /\ files = [p \in Paths |-> NoFile]
    /\ stats = ZeroStats
    /\ dist_client = Disabled
    /\ now = 1
    /\ got = NoCall
    /\ NoDetection
    /\ exes = [p \in ExePaths |-> [mtime |-> 1, kind |-> "compiler"]]
    /\ created = NoAttempt
    /\ \E dur \in {0, IdleTimeout} : LoopStart(dur)
    /\ link = [c \in Links |-> NoLink]
    /\ NothingAside

NextServer ==
    \/ Poll
    \/ Signal
    \/ AcceptError
    \/ \E c \in Conns : Accept(c) \/ CallCompile(c) \/ CallPlain(c) \/ CallShutdown(c) \/ Close(c)
    \/ TaskOver
    \/ TimerError
    \/ Park
    \/ Exit
    \/ Sleep

SpecServer == InitServer /\ [][NextServer]_vars

\* ------------------------------------------------ SccacheService::bind
\* The variables forwarded with a Compile request: pairs of name and value.
EnvVars ==
    {<< >>,
     <<<<"PATH", "1">>>>,
     <<<<"SCCACHE_RECACHE", "1">>>>,
     <<<<"SCCACHE_RECACHE", "">>>>,
     <<<<"sccache_recache", "1">>>>,
     <<<<"PATH", "1">>, <<"SCCACHE_RECACHE", "0">>>>}

\* CacheControlOf looking at the value of the variable.
CacheControlOf_ByValue(env_vars) ==
    IF \E i \in DOMAIN env_vars :
          env_vars[i][1] = "SCCACHE_RECACHE" /\ env_vars[i][2] \notin {"", "0"}
    THEN "ForceRecache"
    ELSE "Default"

\* start_compile_task: the cache control of the request, from the names of
\* the variables forwarded with it.
CacheControlOf(env_vars) ==
    IF \E i \in DOMAIN env_vars : env_vars[i][1] = "SCCACHE_RECACHE"
    THEN "ForceRecache"
    ELSE "Default"

\* An ExitStatus is its exit code or, when a signal ended the process, the
\* signal above SignalBase.  ExitStatus::code() and get_signal():
SignalBase == 256
StatusKilled == SignalBase + 9
Code(status) == IF status < SignalBase THEN SomeOf(status) ELSE None
GetSignal(status) == status - SignalBase

\* The errors the pipeline ends with: the chain of kinds, the outermost first.
PipelineErrors ==
    {Msg("Other"), Msg("ProcessError"), Msg("HttpClientError"),
     ChainErr(Msg("ProcessError"), "Other"), ChainErr(Msg("Other"), "Other")}

\* The arm of the match that an error of the pipeline takes.
ResultOfError(e) ==
    CASE Head(e) = "ProcessError" -> "ErrProcess"
      [] Head(e) = "HttpClientError" -> "ErrHttp"
      [] OTHER -> "ErrOther"

\* The text written for a fatal error: the heading, the error, and a line
\* for every error of err.iter(), which starts at the error itself.
FatalStderr(e) ==
    <<[line |-> "fatal error", of |-> "sccache"], [line |-> "error", of |-> Head(e)]>>
       \o [i \in DOMAIN e |-> [line |-> "cause", of |-> e[i]]]

\* What the pipeline of a request resolves to under its cache control: the
\* lookup (the entry may be in the cache), then the result, its output and
\* its error.
Outcomes(cache_control) ==
    LET t == [IdleTask EXCEPT !.key = 1, !.cache_control = cache_control]
        ok == [status |-> StatusOk, stdout |-> << >>, stderr |-> << >>]
        Out(status) == [status |-> status, stdout |-> <<1>>, stderr |-> <<2>>]
        Of(res, result, out, e) ==
            [t EXCEPT !.lookup = res, !.result = result, !.output = out, !.error = e,
                      !.miss_type = IF result = "CacheMiss" THEN MissTypeOf(res)
                                    ELSE "none"]
    IN
    UNION {
        IF res = "Hit"
        THEN {Of(res, "CacheHit", ok, << >>)}
        ELSE {Of(res, "CacheMiss", ok, << >>), Of(res, "NotCacheable", ok, << >>)}
             \cup {Of(res, "CompileFailed", Out(st), << >>) :
                      st \in {StatusFail, StatusKilled}}
             \cup {Of(res, ResultOfError(e),
                      IF ResultOfError(e) = "ErrProcess" THEN Out(st) ELSE NoOutput, e) :
                      e \in PipelineErrors, st \in {StatusFail, StatusKilled}}
        : res \in IF cache_control = "ForceRecache" THEN LookupResults(t)
                  ELSE LookupResults(t) \cup {"Hit"}}

\* CompileFinished with the status for retcode, signal or not.
CompileFinishedOf_AlwaysCode(t) ==
    [retcode |-> SomeOf(FinishedOf(t).retcode), signal |-> None,
     stdout |-> FinishedOf(t).stdout,
     stderr |-> IF t.result = "ErrOther" THEN FatalStderr(t.error)
                ELSE FinishedOf(t).stderr]

\* The CompileFinished message of the match on the pipeline's result: of a
\* process output the exit code, or the signal when there is no code; of a
\* fatal error the text of its chain.
CompileFinishedOf(t) ==
    IF t.result = "ErrOther"
    THEN [retcode |-> SomeOf(FinishedOf(t).retcode), signal |-> None,
          stdout |-> << >>, stderr |-> FatalStderr(t.error)]
    ELSE IF t.result = "ErrHttp"
    THEN [retcode |-> SomeOf(FinishedOf(t).retcode), signal |-> None,
          stdout |-> << >>, stderr |-> FinishedOf(t).stderr]
    ELSE [retcode |-> Code(t.output.status),
          signal |-> IF Code(t.output.status).some THEN None
                     ELSE SomeOf(GetSignal(t.output.status)),
          stdout |-> t.output.stdout, stderr |-> t.output.stderr]

\* A frame on the wire of a connection: the response it belongs to, its part
\* and what it carries.
Frame(n, part, what) == [n |-> n, part |-> part, what |-> what]

\* The requests sent so far, over the connections in s.
RECURSIVE Sent(_)
Sent(s) ==
    IF s = {} THEN 0
    ELSE LET c == CHOOSE d \in s : TRUE IN
         link[c].read + link[c].pending + Sent(s \ {c})

\* The client writes a request into the socket.
ClientSend(c) ==
    /\ Sent(Links) < MaxCalls
    /\ link' = [link EXCEPT ![c].pending = @ + 1]
    /\ UNCHANGED <<task, storage, files, stats, dist_client, now, got, detect, created, loop, aside>>

\* Flatten reading the stream of requests while a response is under way.
Idle_Eager(l) == l.inner \in {"none", "body"}

\* Flatten polls the stream of requests only when the stream of the frames
\* of the last response has ended.
Idle(l) == l.inner = "none"

\* The request read is answered with a message without body.
Answer(c, message) ==
    link' = [link EXCEPT ![c].pending = @ - 1, ![c].read = @ + 1,
                         ![c].inner = "message", ![c].message = message,
                         ![c].chunk = FALSE, ![c].task = NoTask]

\* The request read is answered CompileStarted, with a body: its task has
\* been spawned.
AnswerWithBody(c, env_vars) ==
    link' = [link EXCEPT ![c].pending = @ - 1, ![c].read = @ + 1,
                         ![c].inner = "message", ![c].message = "CompileStarted",
                         ![c].chunk = FALSE,
                         ![c].task = [NoTask EXCEPT !.pc = "running",
                                         !.env_vars = env_vars,
                                         !.cache_control = CacheControlOf(env_vars)]]

\* CallStats zeroing the counters on GetStats too.
CallStats_AlwaysZero(c) ==
    /\ Idle(link[c]) /\ link[c].pending > 0
    /\ \E request \in {"GetStats", "ZeroStats"} :
          /\ stats' = ZeroStats
          /\ Answer(c, IF request = "ZeroStats" THEN "Stats(zeroed)" ELSE "Stats")
    /\ UNCHANGED <<task, storage, files, dist_client, now, got, detect, created, loop, aside>>

\* The next request of the connection is read and call() runs on it:
\* GetStats or ZeroStats.
CallStats(c) ==
    /\ Idle(link[c]) /\ link[c].pending > 0
    /\ \E request \in {"GetStats", "ZeroStats"} :
          /\ stats' = IF request = "ZeroStats" THEN ZeroStats ELSE stats
          /\ Answer(c, IF request = "ZeroStats" THEN "Stats(zeroed)" ELSE "Stats")
    /\ UNCHANGED <<task, storage, files, dist_client, now, got, detect, created, loop, aside>>

\* The future of call() fails: the stream of the frames ends with the error
\* and so does forward, and with it the future of the connection.
Fail(c) ==
    link' = [link EXCEPT ![c].pending = @ - 1, ![c].read = @ + 1,
                         ![c].inner = "failed", ![c].message = "none",
                         ![c].chunk = FALSE, ![c].task = NoTask]

\* The next request of the connection is read and call() runs on it: Compile.
\* compiler_info fails when the metadata of the executable cannot be read;
\* otherwise check_compiler answers, and spawns the task when it answers
\* CompileStarted.
CallCompileOn(c) ==
    /\ Idle(link[c]) /\ link[c].pending > 0
    /\ \E metadata \in {"Ok", "Err"}, compiler \in {0, 1}, env_vars \in EnvVars :
          IF metadata = "Err"
          THEN stats' = Inc(stats, "compile_requests") /\ Fail(c)
          ELSE \E checked \in CheckCompiler(compiler) :
                  /\ stats' = Inc(Inc(stats, "compile_requests"), checked.counter)
                  /\ IF checked.answer = "CompileStarted"
                     THEN AnswerWithBody(c, env_vars)
                     ELSE Answer(c, checked.answer)
    /\ UNCHANGED <<task, storage, files, dist_client, now, got, detect, created, loop, aside>>

\* forward takes the next frame of the response and the sink writes it: the
\* message, then the chunk of the body when the task has sent it; the end of
\* the body, when the task has dropped its sender, writes nothing.
Write(c) ==
    LET l == link[c] IN
    /\ \/ /\ l.inner = "message"
          /\ link' = [link EXCEPT
                ![c].wire = Append(@, Frame(l.read, "message", l.message)),
                ![c].message = "none",
                ![c].inner = IF l.task.pc = "none" THEN "none" ELSE "body"]
       \/ /\ l.inner = "body" /\ l.chunk
          /\ link' = [link EXCEPT
                ![c].wire = Append(@, Frame(l.read, "body", "CompileFinished")),
                ![c].chunk = FALSE]
       \/ /\ l.inner = "body" /\ ~l.chunk /\ l.task.pc = "over"
          /\ link' = [link EXCEPT ![c].inner = "none", ![c].task = NoTask]
    /\ UNCHANGED <<task, storage, files, stats, dist_client, now, got, detect, created, loop, aside>>

\* The pipeline of the task resolves: the closure counts, sends the
\* CompileFinished message into the body and joins the cache write of a miss.
Finish(c) ==
    LET l == link[c] IN
    /\ l.task.pc = "running"
    /\ \E t \in Outcomes(l.task.cache_control) :
          /\ stats' = StatsAfter(stats, t)
          /\ link' = [link EXCEPT
                ![c].chunk = TRUE,
                ![c].task = [l.task EXCEPT
                     !.pc = IF t.result = "CacheMiss" THEN "sent" ELSE "over",
                     !.env_vars = << >>,
                     !.result = t.result,
                     !.output = t.output,
                     !.error = t.error,
                     !.finished = CompileFinishedOf(t)]]
    /\ UNCHANGED <<task, storage, files, dist_client, now, got, detect, created, loop, aside>>

\* The cache write of a miss is over: the closure counts it and the task
\* ends, dropping the sender of the body.
Written(c) ==
    /\ link[c].task.pc = "sent"
    /\ \E put \in {"stored", "failed"} : stats' = WriteStats(stats, put)
    /\ link' = [link EXCEPT ![c].task.pc = "over"]
    /\ UNCHANGED <<task, storage, files, dist_client, now, got, detect, created, loop, aside>>

InitConn ==
    /\ task = [r \in Reqs |-> IdleTask]
    /\ storage = [k \in Keys |-> NoEntry]
    /\ files = [p \in Paths |-> NoFile]
    /\ stats = ZeroStats
    /\ dist_client = Disabled
    /\ now = 1
    /\ got = NoCall
    /\ NoDetection
    /\ exes = [p \in ExePaths |-> [mtime |-> 1, kind |-> "compiler"]]
    /\ NothingApart

NextConn ==
    \E c \in Links :
        \/ ClientSend(c)
        \/ CallStats(c)
        \/ CallCompileOn(c)
        \/ Write(c)
        \/ Finish(c)
        \/ Written(c)

SpecConn == InitConn /\ [][NextConn]_vars

\* ------------------------------------- call: a Compile request that waits
\* CallCompileWait without the count of the request.
CallCompileWait_Uncounted(c) ==
    /\ Idle(link[c]) /\ link[c].pending > 0
    /\ \E env_vars \in EnvVars :
          link' = [link EXCEPT ![c].pending = @ - 1, ![c].read = @ + 1,
                               ![c].inner = "detecting", ![c].message = "none",
                               ![c].chunk = FALSE,
                               ![c].task = [NoTask EXCEPT !.env_vars = env_vars]]
    /\ UNCHANGED <<task, storage, files, stats, dist_client, now, got, detect,
                   created, loop, aside>>

\* The next request of the connection is read and call() runs on it: Compile,
\* counted at once, for an executable that is not in the compilers map: the
\* detection is started and the future of call() is pending.
CallCompileWait(c) ==
    /\ Idle(link[c]) /\ link[c].pending > 0
    /\ stats' = Inc(stats, "compile_requests")
    /\ \E env_vars \in EnvVars :
          link' = [link EXCEPT ![c].pending = @ - 1, ![c].read = @ + 1,
                               ![c].inner = "detecting", ![c].message = "none",
                               ![c].chunk = FALSE,
                               ![c].task = [NoTask EXCEPT !.env_vars = env_vars]]
    /\ UNCHANGED <<task, storage, files, dist_client, now, got, detect, created,
                   loop, aside>>

\* The detection is over: check_compiler counts and answers, and spawns the
\* task when it answers CompileStarted.
CheckedOn(c) ==
    /\ link[c].inner = "detecting"
    /\ \E compiler \in {0, 1} : \E checked \in CheckCompiler(compiler) :
          /\ stats' = Inc(stats, checked.counter)
          /\ link' = [link EXCEPT
                ![c].inner = "message", ![c].message = checked.answer,
                ![c].task = IF checked.answer = "CompileStarted"
                            THEN [NoTask EXCEPT !.pc = "running",
                                     !.env_vars = link[c].task.env_vars,
                                     !.cache_control =
                                         CacheControlOf(link[c].task.env_vars)]
                            ELSE NoTask]
    /\ UNCHANGED <<task, storage, files, dist_client, now, got, detect, created,
                   loop, aside>>

\* forward finds the stream of the responses not ready and flushes the sink:
\* the frames handed to it before cannot be sent, forward ends with the error and
\* the future of the connection is dropped, the pending future of call() and
\* its detection with it.
Broken(c) ==
    /\ link[c].inner = "detecting" /\ link[c].wire # << >>
    /\ link' = [link EXCEPT ![c].inner = "dropped", ![c].task = NoTask]
    /\ UNCHANGED <<task, storage, files, stats, dist_client, now, got, detect,
                   created, loop, aside>>

NextCount ==
    \E c \in Links :
        \/ ClientSend(c)
        \/ CallStats(c)
        \/ CallCompileOn(c)
        \/ CallCompileWait(c)
        \/ CheckedOn(c)
        \/ Broken(c)
        \/ Write(c)
        \/ Finish(c)
        \/ Written(c)

SpecCount == InitConn /\ [][NextCount]_vars

\* ------------------------------------------------------- detect_compiler
\* The output of a child process is a text: a sequence of atoms, each a word,
\* a blank or a line ending.  A file stem is a sequence of characters.
MaxText == 3

Words == {"clang", "diab", "gcc", "msvc", "msvc-clang", "foo"}
Atoms == Words \cup {" ", "\n", "\r"}
Texts == UNION {[1..k -> Atoms] : k \in 0..MaxText}

\* executable.file_stem(): None for a path without a file name.
NoStem == <<"/">>
Stems == {NoStem, <<"R", "u", "s", "t", "c">>, <<"g", "c", "c">>}

\* str::to_lowercase, character by character
LowerChar(ch) ==
    CASE ch = "R" -> "r"
      [] ch = "U" -> "u"
      [] ch = "S" -> "s"
      [] ch = "T" -> "t"
      [] ch = "C" -> "c"
      [] OTHER -> ch
ToLowercase(s) == [i \in DOMAIN s |-> LowerChar(s[i])]

\* str::starts_with
StartsWith(s, prefix) ==
    Len(s) >= Len(prefix) /\ SubSeq(s, 1, Len(prefix)) = prefix

\* What `-vV` can come to: the child cannot be spawned or read, or it exits
\* with a status and a stdout that may not be UTF-8.
Banner == <<"rustc", " ", "1.27.0", "\n">>
VvChildren ==
    {[spawn |-> "Err", status |-> 0, utf8 |-> TRUE, stdout |-> << >>]}
    \cup [spawn : {"Ok"}, status : {0, 1}, utf8 : {TRUE},
          stdout : {Banner, <<"rustc">>, <<"rustc", "-", "1.27.0">>, << >>}]
    \cup {[spawn |-> "Ok", status |-> 0, utf8 |-> FALSE, stdout |-> Banner]}

\* What `-E testfile.c` can come to: the temporary file cannot be written or
\* the child cannot be spawned or read, or it exits with a status and a
\* stdout that may not be UTF-8.
EChildren ==
    {[spawn |-> "Err", status |-> 0, utf8 |-> TRUE, stdout |-> << >>]}
    \cup [spawn : {"Ok"}, status : {0, 1}, utf8 : {TRUE}, stdout : Texts]
    \cup [spawn : {"Ok"}, status : {0, 1}, utf8 : {FALSE}, stdout : {<<"gcc">>}]

\* str::split_terminator('\n'): the pieces between line feeds, without an
\* empty piece after the last one.
RECURSIVE SplitTerminator(_, _)
SplitTerminator(text, line) ==
    IF text = << >> THEN (IF line = << >> THEN << >> ELSE <<line>>)
    ELSE IF Head(text) = "\n"
         THEN <<line>> \o SplitTerminator(Tail(text), << >>)
         ELSE SplitTerminator(Tail(text), Append(line, Head(text)))

\* str::lines: a line ends at "\n" or "\r\n".  Whether a carriage return
\* that ends the text without a line feed is taken off the last line depends
\* on the standard library the program is built with (bare).
Lines(text, bare) ==
    LET raw == SplitTerminator(text, << >>)
        ended == Cardinality({i \in DOMAIN text : text[i] = "\n"})
        Strip(l) == IF l # << >> /\ l[Len(l)] = "\r"
                    THEN SubSeq(l, 1, Len(l) - 1) ELSE l
    IN  [i \in DOMAIN raw |-> IF i <= ended \/ bare THEN Strip(raw[i])
                              ELSE raw[i]]

\* The result of a detection: which adapter is built, None, or an error.
OkKind(v) == [tag |-> "Ok", v |-> v]
ErrKind(message) == [tag |-> "Err", v |-> message]

\* The match on one line of the preprocessed test file.
KindOfLine_Prefix(line) ==
    IF line = << >> THEN "None"
    ELSE CASE line[1] = "clang" -> "Clang"
           [] line[1] = "diab" -> "Diab"
           [] line[1] = "gcc" -> "GCC"
           [] line[1] = "msvc" -> "MSVC"
           [] line[1] = "msvc-clang" -> "MSVC(is_clang)"
           [] OTHER -> "None"
KindOfLine(line) ==
    CASE line = <<"clang">> -> "Clang"
      [] line = <<"diab">> -> "Diab"
      [] line = <<"gcc">> -> "GCC"
      [] line = <<"msvc">> -> "MSVC"
      [] line = <<"msvc-clang">> -> "MSVC(is_clang)"
      [] OTHER -> "None"

\* for line in stdout.lines() { match line { ... => return ..., _ => () } }
RECURSIVE FirstKind(_)
FirstKind(lines) ==
    IF lines = << >> THEN "None"
    ELSE IF KindOfLine(Head(lines)) # "None" THEN KindOfLine(Head(lines))
         ELSE FirstKind(Tail(lines))

\* detect_c_compiler, once the child has been run: the exit status is not
\* looked at.
DetectCCompiler(child, bare) ==
    IF child.spawn = "Err" THEN ErrKind("io")
    ELSE IF ~child.utf8 THEN ErrKind("Failed to parse output")
    ELSE OkKind(FirstKind(Lines(child.stdout, bare)))

\* The closure on the output of `-vV`: Some(stdout) or None.
RustcVv(child) ==
    child.status = 0 /\ child.utf8 /\ StartsWith(child.stdout, <<"rustc", " ">>)

\* detect_compiler: the file stem.
FileStem ==
    /\ probe.pc = "stem"
    /\ probe' = IF probe.stem = NoStem
                THEN [probe EXCEPT !.pc = "done",
                         !.result = ErrKind("could not determine compiler kind")]
                ELSE IF ToLowercase(probe.stem) = <<"r", "u", "s", "t", "c">>
                     THEN [probe EXCEPT !.pc = "vv"]
                     ELSE [probe EXCEPT !.pc = "c"]
    /\ UNCHANGED <<task, storage, files, stats, dist_client, now, got, detect,
                   created, loop, link, waiter>>

\* detect_compiler: `-vV` has been run.
SanityCheck ==
    /\ probe.pc = "vv"
    /\ \E child \in VvChildren :
          probe' = IF child.spawn = "Err"
                   THEN [probe EXCEPT !.pc = "done", !.vv = child,
                                      !.result = ErrKind("io")]
                   ELSE IF RustcVv(child)
                        THEN [probe EXCEPT !.pc = "done", !.vv = child,
                                           !.result = OkKind("Rust")]
                        ELSE [probe EXCEPT !.pc = "c", !.vv = child]
    /\ UNCHANGED <<task, storage, files, stats, dist_client, now, got, detect,
                   created, loop, link, waiter>>

\* detect_c_compiler: `-E` has been run.
DetectC ==
    /\ probe.pc = "c"
    /\ \E child \in EChildren, bare \in BOOLEAN :
          probe' = [probe EXCEPT !.pc = "done", !.e = child, !.bare = bare,
                                 !.result = DetectCCompiler(child, bare)]
    /\ UNCHANGED <<task, storage, files, stats, dist_client, now, got, detect,
                   created, loop, link, waiter>>

\* get_compiler_info: None becomes an error.
CompilerKind(result) ==
    IF result = OkKind("None")
    THEN ErrKind("could not determine compiler kind")
    ELSE result

GetCompilerKind ==
    /\ probe.pc = "done"
    /\ probe' = [probe EXCEPT !.pc = "info", !.info = CompilerKind(probe.result)]
    /\ UNCHANGED <<task, storage, files, stats, dist_client, now, got, detect,
                   created, loop, link, waiter>>

InitKind ==
    /\ task = [r \in Reqs |-> IdleTask]
    /\ storage = [k \in Keys |-> NoEntry]
    /\ files = [p \in Paths |-> NoFile]
    /\ stats = ZeroStats
    /\ dist_client = Disabled
    /\ now = 1
    /\ got = NoCall
    /\ NoDetection
    /\ exes = [p \in ExePaths |-> [mtime |-> 1, kind |-> "compiler"]]
    /\ created = NoAttempt /\ LoopStart(0) /\ link = [c \in Links |-> NoLink]
    /\ \E stem \in Stems : probe = [NoProbe EXCEPT !.pc = "stem", !.stem = stem]
    /\ waiter = NoWaiter

NextKind ==
    \/ FileStem
    \/ SanityCheck
    \/ DetectC
    \/ GetCompilerKind

SpecKind == InitKind /\ [][NextKind]_vars

\* ------------------------------------------------------ the specification
Next ==
    \E r \in Reqs :
        \/ Start(r)
        \/ Disconnect(r)
        \/ Hash(r)
        \/ Lookup(r)
        \/ HitTmp(r)
        \/ HitCopy(r)
        \/ HitPersist(r)
        \/ HitSetMode(r)
        \/ HitFail(r)
        \/ Compile(r)
        \/ StoreObject(r)
        \/ StoreFail(r)
        \/ StorePut(r)
        \/ PutStore(r)
        \/ PutFail(r)
        \/ WriteDone(r)

Spec == Init /\ [][Next]_vars

\* Requests that follow one another: a task slot serves up to MaxRuns requests
\* of connected clients.
NextRerun ==
    \E r \in Reqs :
        \/ StartNext(r)
        \/ Hash(r)
        \/ Lookup(r)
        \/ HitTmp(r)
        \/ HitCopy(r)
        \/ HitPersist(r)
        \/ HitSetMode(r)
        \/ HitFail(r)
        \/ Compile(r)
        \/ StoreObject(r)
        \/ StoreFail(r)
        \/ StorePut(r)
        \/ PutStore(r)
        \/ PutFail(r)
        \/ WriteDone(r)

SpecRerun == Init /\ [][NextRerun]_vars


\* ======================================================================
\*                              The claims
\* ======================================================================

\* C1 (as claimed): every entry committed under key K contains output bytes
\* produced by a compilation whose inputs hashed to K, for any interleaving
\* of the requests' compile, entry-build and storage.put steps, also when
\* their output paths coincide.
C1_StorageIntegrity ==
    \A k \in Keys :
        \A n \in DOMAIN storage[k].objs : storage[k].objs[n].data = k

\* C2: storage.put is called only by a request in its store stage, after the
\* one compile it ran exited with status 0 with the verdict Cacheable::Yes; a
\* request whose outcome is CompileFailed, NotCacheable, Error or CacheHit
\* has called no put; and the storage contents change only by the put of a
\* request whose outcome is CacheMiss, under that request's key.
C2_NoPutOutcomes == {"CompileFailed", "NotCacheable", "Error", "CacheHit"}

C2_CacheabilityGate ==
    /\ [](\A r \in Reqs :
            task[r].result \in C2_NoPutOutcomes => task[r].put = "none")
    /\ [][\A r \in Reqs :
            (task[r].put = "none" /\ task'[r].put # "none")
               => /\ task[r].pc = "store"
                  /\ task[r].compiles = 1
                  /\ task[r].output.status = StatusOk
                  /\ task[r].cacheable
                  /\ task'[r].result = "CacheMiss"]_vars
    /\ [][\A k \in Keys :
            storage'[k] # storage[k]
               => \E r \in Reqs : /\ task[r].key = k
                                  /\ task[r].result = "CacheMiss"
                                  /\ task[r].put = "issued"
                                  /\ task'[r].put = "stored"
                                  /\ storage'[k] = task[r].entry]_vars

\* C2 witness: a request has ended as NotCacheable, with outputs of a
\* successful compile on disk and nothing stored under its key.
C2_Witness ==
    \E r \in Reqs :
        /\ task[r].pc = "done" /\ task[r].result = "NotCacheable"
        /\ files # [p \in Paths |-> NoFile]
        /\ storage[task[r].key] = NoEntry

\* C3 (as claimed): a request that hits on key K invokes no compiler, has
\* exit status 0 and the streams of the compile of K, and the rename of each
\* of its outputs leaves at the path the bytes a compile of K produces there.
C3_HitEqualsStore ==
    [][\A r \in Reqs :
          (task[r].pc = "hit" /\ task[r].tmp # NoTmp /\ task'[r].tmp = NoTmp
             /\ task'[r].pc = "hit")
             => /\ task[r].compiles = 0
                /\ task[r].output = CompilerOutput(task[r].key, StatusOk)
                /\ files'[task[r].tmp.path].data = task[r].key]_vars

\* C4: no step ever leaves a partially written file at an output path: a step
\* either leaves the file at a path as it is or puts a complete file there;
\* the blob is copied into the temp file only, and a materialization that is
\* aborted with its temp file written (or partly written) changes no path.
C4_AtomicMaterialization ==
    /\ [](\A p \in Paths : files[p] = NoFile \/ files[p].len = BlobLen)
    /\ [][\A p \in Paths : files'[p] = files[p] \/ files'[p].len = BlobLen]_vars
    /\ [][\A r \in Reqs :
            (task[r].pc = "hit" /\ task[r].tmp # NoTmp /\ task'[r].pc # "hit")
               => files' = files]_vars

\* C4 witness: a temp file is partly written while the destination still
\* holds the complete previous file, of another mode than the temp file.
C4_Witness ==
    \E r \in Reqs :
        /\ task[r].pc = "hit" /\ task[r].tmp # NoTmp
        /\ task[r].tmp.len > 0 /\ task[r].tmp.len < BlobLen
        /\ files[task[r].tmp.path].len = BlobLen
        /\ files[task[r].tmp.path].mode = OutMode

\* C5 (as claimed): once storage.put has been issued for a successful,
\* cacheable compile it runs to completion, whether or not the client's
\* connection is closed: no issued put is ever abandoned.
C5_WriteSurvivesDisconnect ==
    \A r \in Reqs : task[r].put # "cancelled"

\* The stages of the pipeline of get_cached_or_compile.
Stages == {"hash", "lookup", "hit", "compile", "store"}

C11_PreprocessorError ==
    /\ [](\A r \in Reqs :
            task[r].pc = "hash"
               => /\ ~task[r].get_called /\ task[r].compiles = 0
                  /\ task[r].put = "none" /\ task[r].lookup = "none")
    /\ [][\A r \in Reqs :
            (task[r].pc = "hash" /\ task'[r].result = "Error")
               => /\ task'[r].pc = "done"
                  /\ ~task'[r].get_called /\ task'[r].compiles = 0
                  /\ task'[r].put = "none"
                  /\ storage' = storage /\ files' = files
                  /\ stats' = [stats EXCEPT !.cache_errors = @ + 1]
                  /\ task[r].rx =>
                       task'[r].reply =
                          [sent |-> TRUE,
                           retcode |-> PreprocessorOutput(task[r].key).status,
                           stdout |-> PreprocessorOutput(task[r].key).stdout,
                           stderr |-> PreprocessorOutput(task[r].key).stderr]]_vars
    /\ [][\A r \in Reqs :
            (task[r].pc = "hash" /\ task'[r].result = "ErrOther")
               => /\ task'[r].pc = "done" /\ task'[r].put = "none"
                  /\ storage' = storage /\ files' = files
                  /\ task[r].rx => task'[r].reply.retcode = RetcodeFatal]_vars
    /\ [](\A r \in Reqs :
            task[r].result = "Error" => task[r].pc = "done" /\ task[r].put = "none")

\* C11 witness: a connected client has the failed preprocessor's output as
\* its reply, and the storage and the disk are as they were.
C11_Witness ==
    \E r \in Reqs :
        /\ task[r].pc = "done" /\ task[r].result = "Error"
        /\ task[r].reply.sent /\ task[r].reply.retcode = StatusFail
        /\ task[r].reply.stderr = <<task[r].key>>
        /\ stats.cache_errors = 1
        /\ storage = [k \in Keys |-> NoEntry]
        /\ files = [p \in Paths |-> NoFile]

\* C12: a hit whose materialization fails at any step ends the request with
\* an error: the request leaves the hit stage only as CacheHit or as an
\* error, never towards the compile and never having run a compiler; the
\* failure is counted in cache_errors, a connected client gets the fatal
\* reply, and the failing step leaves every file, the outputs renamed before
\* it included, and the storage as they are.
C12_HitFailure ==
    /\ [][\A r \in Reqs :
            (task[r].pc = "hit" /\ task'[r].pc # "hit")
               => /\ task'[r].pc = "done"
                  /\ task'[r].result \in {"CacheHit", "ErrOther"}
                  /\ task[r].compiles = 0 /\ task'[r].compiles = 0
                  /\ task'[r].put = "none"
                  /\ storage' = storage]_vars
    /\ [][\A r \in Reqs :
            (task[r].pc = "hit" /\ task'[r].result = "ErrOther")
               => /\ files' = files
                  /\ stats' = [stats EXCEPT !.cache_errors = @ + 1]
                  /\ task[r].rx => /\ task'[r].reply.sent
                                   /\ task'[r].reply.retcode = RetcodeFatal]_vars

\* C12 witness: a hit failed after the rename of an output and before its
\* mode was set: the request has ended in an error and the renamed file, with
\* the temp file's mode, is in place.
C12_Witness ==
    \E r \in Reqs :
        /\ task[r].pc = "done" /\ task[r].result = "ErrOther"
        /\ \A q \in Reqs \ {r} : task[q].result = "CacheMiss"
        /\ \E p \in Paths : files[p].len = BlobLen /\ files[p].mode = TmpMode

\* The kinds in the chain of an error.
KindsOf(e) == {e[i] : i \in DOMAIN e}

\* What the local compile of a fallback does in one step: the compiler runs
\* once, and either its output is the reply of the request (a failed or a
\* non-cacheable compile), or the compile succeeded and the entry is next.
FallbackCompiled(r) ==
    /\ task[r].compiles = 0
    /\ \/ /\ task'[r].pc = "store"
          /\ task'[r].compiles = 1
          /\ task'[r].dist_type = "Error"
          /\ task'[r].cacheable
          /\ task'[r].output = CompilerOutput(task[r].key, StatusOk)
          /\ \A n \in DOMAIN task[r].outputs :
                files'[task[r].outputs[n]].data = task[r].key
       \/ /\ task'[r].pc = "done"
          /\ task'[r].result \in {"CompileFailed", "NotCacheable", "ErrProcess"}
          /\ task'[r].put = "none"
          /\ \E status \in {StatusOk, StatusFail} :
                /\ task'[r].reply.retcode = status
                /\ status = StatusOk <=> task'[r].result = "NotCacheable"
                /\ task'[r].reply.stdout = CompilerStdout(task[r].key)
                /\ task'[r].reply.stderr = CompilerStderr(task[r].key)

C14_ClientError ==
    [][\A r \in Reqs :
         (task[r].pc = "or_else" /\ "HttpClientError" \in KindsOf(task[r].error)
            /\ task'[r].pc # "or_else")
            => /\ task'[r].pc = "done"
               /\ task'[r].result = "ErrHttp"
               /\ task'[r].put = "none"
               /\ task'[r].reply.sent /\ task'[r].reply.retcode = RetcodeHttp
               /\ dist_client' = ResetState(dist_client, now)
               /\ dist_client.tag # "Disabled"
                     => dist_client' = RetryCreateAt(dist_client.cfg, now - 1)]_vars

\* C15: every request whose offload failed with an error that is not a
\* client error and fell back to the local compile is counted once in
\* dist_errors when it ends, and dist_compiles is counted, once, exactly for
\* the requests whose offload completed.
C15_DistCounters ==
    [][\A r \in Reqs :
         (task[r].pc \in {"fallback", "fetch", "store", "compile"}
            /\ task'[r].pc \in {"write", "done"})
            => /\ stats'.dist_errors =
                     stats.dist_errors + (IF task[r].dist_type = "Error" THEN 1 ELSE 0)
               /\ stats'.dist_compiles =
                     stats.dist_compiles
                        + (IF task[r].pc = "fetch" \/ task[r].dist_type = "Ok"
                           THEN 1 ELSE 0)]_vars

\* C16: the compiler-detection cache never returns stale results: when the
\* modification time read for a request differs from the one the entry of
\* the path was recorded with, be the entry a compiler or the non-result,
\* compiler_info does not answer with the entry and runs the detection again.
C16_NeverStale ==
    [][\A i \in Clients :
         (info[i].pc = "idle" /\ info'[i].pc # "idle"
            /\ compilers[info'[i].path] # NotCached
            /\ recorded[info'[i].path] # Metadata(info'[i].path))
            => info'[i].pc = "probing" /\ info'[i].probed]_vars

\* C17: when the path of a request has an entry, recorded by a completed
\* detection, and the modification time read for the request is the one the
\* entry was recorded with, the request is answered from the entry: no probe
\* is spawned and the entry stays; with the cached non-result the answer is
\* UnsupportedCompiler, counted in requests_unsupported_compiler, and with a
\* compiler it is the cached compiler that check_compiler is run on.
C17_Memoization ==
    [][\A i \in Clients :
         (info[i].pc = "idle" /\ info'[i].pc # "idle"
            /\ compilers[info'[i].path] # NotCached
            /\ recorded[info'[i].path] = Metadata(info'[i].path))
            => /\ info'[i].pc = "answered" /\ ~info'[i].probed
               /\ compilers' = compilers /\ recorded' = recorded
               /\ IF compilers[info'[i].path] = CachedNone
                  THEN /\ info'[i].answer = "UnsupportedCompiler"
                       /\ stats' = Inc(stats, "requests_unsupported_compiler")
                  ELSE /\ info'[i].answer \in {"CompileStarted", "UnhandledCompile"}
                       /\ stats.requests_unsupported_compiler
                             = stats'.requests_unsupported_compiler]_vars

\* C17 witness: a request for a path whose detection had recorded a
\* non-result has been answered UnsupportedCompiler without a probe, the
\* executable being as it was when the entry was recorded.
C17_Witness ==
    \E i \in Clients :
        /\ info[i].pc = "answered" /\ ~info[i].probed
        /\ info[i].answer = "UnsupportedCompiler"
        /\ compilers[info[i].path] = CachedNone
        /\ recorded[info[i].path] = info[i].mtime
        /\ Metadata(info[i].path) = info[i].mtime

\* C17 witness: a request has been answered from the entry of a compiler.
C17_WitnessCompiler ==
    \E i \in Clients :
        /\ info[i].pc = "answered" /\ ~info[i].probed
        /\ info[i].answer = "CompileStarted"
        /\ compilers[info[i].path] = CachedSome(info[i].mtime, info[i].mtime)

\* What a get_client call that attempted the creation at instant t leaves and
\* returns: the client, a retry one timeout later with None, or the error
\* with a retry one second ago.
Attempted(cfg, t, state, res) ==
    \/ state = Some(cfg) /\ res = "client"
    \/ state = RetryCreateAt(cfg, t + DIST_CLIENT_RECREATE_TIMEOUT) /\ res = "none"
    \/ state = RetryCreateAt(cfg, t - 1) /\ res = "err"

\* C18: a get_client call in state FailWithMessage(cfg, msg) returns the
\* error and leaves RetryCreateAt(cfg, now - 1s); the instant of such a state
\* is in the past, and a call in a state whose instant is in the past
\* attempts the creation: it returns None only with the retry the failed
\* attempt set.
C18_FailFast ==
    /\ [][(dist_client.tag = "FailWithMessage" /\ CallGetClient)
            => /\ got' = [res |-> "err", time |-> now]
               /\ dist_client' = RetryCreateAt(dist_client.cfg, now - 1)
               /\ dist_client'.at < now']_vars
    /\ [][(dist_client.tag = "RetryCreateAt" /\ dist_client.at < now
             /\ CallGetClient)
            => /\ Attempted(dist_client.cfg, now, dist_client', got'.res)
               /\ got'.res = "none" => dist_client' # dist_client]_vars

\* C18 witness: the call in the failed state has returned the error and left
\* the retry one second ago.
C18_Witness ==
    /\ got = [res |-> "err", time |-> now]
    /\ dist_client.tag = "RetryCreateAt" /\ dist_client.at = now - 1
    /\ now = 1

\* C19: in state RetryCreateAt(cfg, t) a get_client call made while now < t
\* returns None and leaves the state as it is; a call made when now >= t
\* attempts the creation and returns by the resulting state.
C19_RetryGating ==
    /\ [][(dist_client.tag = "RetryCreateAt" /\ now < dist_client.at
             /\ CallGetClient)
            => /\ got' = [res |-> "none", time |-> now]
               /\ dist_client' = dist_client]_vars
    /\ [][(dist_client.tag = "RetryCreateAt" /\ now >= dist_client.at
             /\ CallGetClient)
            => /\ got'.time = now
               /\ Attempted(dist_client.cfg, now, dist_client', got'.res)]_vars

\* C19 witness: a call made before the instant has returned None and left the
\* retry, set some time ago, as it was.
C19_Witness ==
    /\ got = [res |-> "none", time |-> now]
    /\ dist_client.tag = "RetryCreateAt"
    /\ now < dist_client.at
    /\ dist_client.at < now + DIST_CLIENT_RECREATE_TIMEOUT

\* C19 witness: a call made at the very instant of the retry has attempted
\* the creation and returned the client.
C19_WitnessDue ==
    /\ got = [res |-> "client", time |-> now]
    /\ dist_client.tag = "Some"
    /\ now = 1 + DIST_CLIENT_RECREATE_TIMEOUT

\* C20: reset_state takes Some, FailWithMessage and RetryCreateAt to
\* RetryCreateAt(cfg, now - 1s) with the configuration they had, so that the
\* next get_client call attempts the creation, and leaves Disabled as it is.
C20_ResetState ==
    /\ [][CallResetState
            => /\ dist_client.tag \in {"Some", "FailWithMessage", "RetryCreateAt"}
                    => dist_client' = RetryCreateAt(dist_client.cfg, now - 1)
               /\ dist_client.tag = "Disabled" => dist_client' = Disabled
               /\ got' = got]_vars
    /\ [][(CallResetState /\ dist_client.tag # "Disabled")
            => /\ dist_client'.cfg = dist_client.cfg
               /\ \A g \in GetClient(dist_client', now') :
                     Attempted(dist_client.cfg, now', g.state, g.res)]_vars

\* C20 witness: a live client has been reset: the state is the retry of one
\* second ago while the last get_client call, made now, returned the client.
C20_Witness ==
    /\ got = [res |-> "client", time |-> now]
    /\ dist_client.tag = "RetryCreateAt" /\ dist_client.at = now - 1
    /\ dist_client.cfg = NCfg

\* C21: a call of create_state ends in Disabled when no scheduler url is
\* configured; otherwise in FailWithMessage when the auth token cannot be
\* loaded; otherwise in RetryCreateAt one timeout (30 s) after the call when
\* the client cannot be constructed or the scheduler does not answer the
\* first status request; otherwise in Some, with the configuration it got.
C21_CreationOutcome ==
    created.state =
       CASE created.cfg = 0 -> Disabled
         [] created.cfg # 0 /\ ~created.token -> FailWithMessage(created.cfg)
         [] created.cfg # 0 /\ created.token /\ created.client /\ created.status
               -> Some(created.cfg)
         [] OTHER -> [tag |-> "RetryCreateAt", cfg |-> created.cfg,
                      at |-> created.at + 30]

\* C21 witness: a retry that was due has been attempted by a get_client
\* call, the scheduler did not answer, and the state is the retry of 30 s
\* after the call.
C21_Witness ==
    /\ created.at = now /\ now > 1
    /\ created.token /\ created.client /\ ~created.status
    /\ got = [res |-> "none", time |-> now]
    /\ dist_client.tag = "RetryCreateAt" /\ dist_client.at = now + 30

\* The Request messages of the queue that a poll reads: those before the
\* first Shutdown.
RECURSIVE RequestsRead(_)
RequestsRead(queue) ==
    IF queue = << >> \/ Head(queue).kind = "Shutdown" THEN << >>
    ELSE <<Head(queue)>> \o RequestsRead(Tail(queue))

ShutdownQueued == \E i \in DOMAIN chan.queue : chan.queue[i].kind = "Shutdown"

\* C22: with an idle timeout T > 0 the deadline of the running server is T
\* after the start or after the receipt of the last request read, and the
\* clock never passes it; every request received re-arms it to its receipt
\* time + T, also when it is read by the poll that finds the old deadline
\* reached; ShutdownOrInactive resolves for idleness only at the deadline,
\* with no message waiting, hence T after the last request.
C22_RollingTimer ==
    /\ [](sup.phase = "running" /\ sup.timeout_dur # 0
            => /\ now <= sup.timeout /\ sup.timeout <= now + sup.timeout_dur
               /\ chan.queue # << >> => chan.queue[Len(chan.queue)].at = now)
    /\ [][(sup.phase = "running" /\ sup.timeout_dur # 0 /\ chan.queue # << >>
             /\ chan'.queue # chan.queue /\ RequestsRead(chan.queue) # << >>
             /\ chan'.rx)
            => /\ sup'.phase = "running"
               /\ chan'.queue = << >> \/ Len(chan'.queue) > Len(chan.queue)
               /\ chan'.queue = << >> =>
                     sup'.timeout = RequestsRead(chan.queue)[Len(RequestsRead(chan.queue))].at
                                       + sup.timeout_dur]_vars
    /\ [][(sup.phase = "running" /\ sup'.phase # "running" /\ sup'.why = "idle")
            => /\ sup.timeout_dur # 0
               /\ chan.queue = << >>
               /\ now = sup.timeout]_vars
    /\ [][(sup.phase = "running" /\ sup.timeout_dur # 0
             /\ (\A c \in Conns : conn[c].reply = "none")
             /\ chan.queue = << >> /\ sup'.phase # "running" /\ sup'.why = "idle")
            => now = 1 + sup.timeout_dur]_vars

\* C22 witness: a request received at the very deadline has been read and
\* the deadline is T after it: the server runs on.
C22_Witness ==
    /\ sup.phase = "running" /\ sup.timeout_dur # 0
    /\ now = 1 + sup.timeout_dur
    /\ sup.timeout = now + sup.timeout_dur
    /\ chan.queue = << >>
    /\ conn[1].reply = "Stats"

\* C22 witness: the server shut down for idleness, T after its last request.
C22_WitnessIdle ==
    /\ sup.phase = "waiting" /\ sup.why = "idle"
    /\ sup.since = sup.timeout /\ sup.since > 1 + sup.timeout_dur
    /\ conn[1].reply # "none"

\* C23: with an idle timeout of zero no timer is armed, at the start or by
\* any request, and ShutdownOrInactive does not resolve for the time that
\* has passed: it resolves only when it reads a Shutdown message (the channel
\* is not closed while the accept loop holds its service).
C23_NoIdleShutdown ==
    /\ [](sup.timeout_dur = 0 => sup.timeout = 0 /\ sup.why # "idle")
    /\ [][(sup.timeout_dur = 0 /\ sup.phase = "running" /\ sup'.phase = "waiting")
            => \/ sup'.why = "shutdown" /\ ShutdownQueued
               \/ sup'.why = "signal"]_vars
    /\ [](sup.timeout_dur = 0 /\ sup.phase = "running" => chan.rx /\ active >= 1)

\* C23 witness: with an idle timeout of zero the server has answered a
\* request and runs on, no timer armed, after more than the grace period and
\* more than the timeout of any other run.
C23_Witness ==
    /\ sup.timeout_dur = 0 /\ sup.phase = "running" /\ sup.timeout = 0
    /\ conn[1].reply = "Stats" /\ chan.queue = << >>
    /\ now = MaxClock

\* C24: the running supervisor stops in the very step in which one of its
\* three futures resolves: the shutdown signal, the error of the accept loop,
\* or ShutdownOrInactive (a Shutdown message, idleness, or the error of its
\* timer).  A Shutdown
\* request (the last call answered ShuttingDown) queues a Shutdown message; with the
\* message queued ShutdownOrInactive is ready for "shutdown" whatever the
\* timer, armed or not, elapsed or not, and the supervisor is polled before
\* any time passes and stops at that poll.
C24_Supervisor ==
    /\ [][(sup.phase = "running" /\ sup'.phase # "running")
            => /\ sup'.why \in {"signal", "accept error", "shutdown", "idle", "timer error"}
               /\ sup'.since = now /\ now' = now
               /\ (sup'.why = "shutdown" => ShutdownQueued)
               /\ (sup'.why = "idle" => Elapsed(sup'.timeout))]_vars
    /\ [](sup.phase = "running" /\ ShutdownQueued
            => /\ Woken
               /\ ShutdownOrInactive(sup, chan).ready
               /\ ShutdownOrInactive(sup, chan).why = "shutdown")
    /\ [][(sup.phase = "running" /\ ShutdownQueued)
            => /\ now' = now
               /\ (sup' # sup => sup'.phase # "running")
               /\ (chan'.queue # chan.queue /\ Len(chan'.queue) <= Len(chan.queue)
                     => sup'.phase # "running")]_vars
    /\ [][(Len(chan'.queue) > Len(chan.queue)
             /\ \A c \in Conns : conn'[c].reply = "ShuttingDown")
            => ShutdownQueued']_vars
    /\ [][(~ShutdownQueued /\ ShutdownQueued')
            => \E c \in Conns : conn'[c].reply = "ShuttingDown" /\ conn'[c].state = "open"]_vars
C24_Witness == sup.phase = "waiting" /\ sup.why = "shutdown" /\ sup.timeout_dur = 0
               /\ conn[1].reply = "ShuttingDown" /\ conn[1].state = "open"
C24_WitnessArmed == sup.phase = "waiting" /\ sup.why = "shutdown" /\ sup.timeout > now
                    /\ conn[1].reply = "ShuttingDown"
C24_WitnessSignal == sup.phase = "waiting" /\ sup.why = "signal" /\ inflight = 1
C24_WitnessAccept == sup.phase = "exited" /\ sup.why = "accept error" /\ active > 1

\* C25: while the server waits for its services the clock never passes the
\* time at which the supervisor resolved + 10 seconds; no time passes once
\* the count of active services is 0 or the 10 seconds are over, and the next
\* step of _run is its return; _run returns from the wait either with
\* no service left or, services left, exactly 10 seconds after the
\* supervisor resolved.
C25_GracefulBound ==
    /\ [](sup.phase \in {"waiting", "exited"} => now <= sup.since + GracePeriod)
    /\ [][(sup.phase = "waiting" /\ (active = 0 \/ now = sup.since + GracePeriod))
            => now' = now /\ (sup' # sup => sup'.phase = "exited")]_vars
    /\ [][(sup.phase = "waiting" /\ sup'.phase # "waiting")
            => /\ sup'.phase = "exited"
               /\ IF active = 0 THEN sup'.why = "done"
                  ELSE sup'.why = "timed out" /\ now = sup.since + GracePeriod]_vars
    /\ [](sup.phase = "waiting" => ~chan.rx /\ sup.why \in {"signal", "shutdown", "idle"})
C25_Witness == sup.phase = "exited" /\ sup.why = "timed out" /\ active = 2 /\ inflight = 1
               /\ now = sup.since + GracePeriod
C25_WitnessZero == sup.phase = "exited" /\ sup.why = "done" /\ active = 0
                   /\ now > sup.since /\ now < sup.since + GracePeriod

\* The frames written so far on connection c.
Wire(c) == link[c].wire

\* C26: on every connection the frames are written in the order of the
\* requests: the first frame is the message of response 1, a message frame
\* follows the last frame of the response before, which is its message or,
\* after CompileStarted, the frame of its body, and the request N+1 is read
\* only when the response N has been written to its end.  (The connections
\* write independently of one another.)
C26_FrameOrder ==
    \A c \in Links :
       LET w == Wire(c) IN
       /\ \A i, j \in DOMAIN w : i < j => w[i].n <= w[j].n
       /\ \A i \in DOMAIN w :
             IF w[i].part = "message"
             THEN /\ w[i].n = IF i = 1 THEN 1 ELSE w[i - 1].n + 1
                  /\ i > 1 /\ w[i - 1].part = "message" => w[i - 1].what # "CompileStarted"
             ELSE i > 1 /\ w[i - 1].part = "message" /\ w[i - 1].n = w[i].n
       /\ link[c].inner = "none" /\ w # << >> => w[Len(w)].n = link[c].read
       /\ link[c].inner # "none" /\ w # << >> => w[Len(w)].n \in {link[c].read - 1, link[c].read}
C26_Witness == /\ Len(Wire(1)) = 3 /\ Wire(1)[1].what = "CompileStarted"
               /\ Wire(1)[2].part = "body" /\ Wire(1)[3].n = 2 /\ link[1].pending = 0
C26_WitnessAcross == /\ link[1].inner = "body" /\ Len(Wire(1)) = 1 /\ ~link[1].chunk
                     /\ Len(Wire(2)) = 2 /\ Wire(2)[2].part = "body" /\ link[2].inner = "none"

\* A Compile request is read on connection c in this step.
CompileRead(c) ==
    /\ link'[c].read = link[c].read + 1
    /\ stats'.compile_requests = stats.compile_requests + 1

\* C27: every Compile request read is answered with a message, which is one of CompileStarted,
\* UnhandledCompile and UnsupportedCompiler: CompileStarted exactly when
\* check_compiler took the branch of a known compiler whose parse_arguments
\* returned Ok (the branch that counts requests_executed and spawns the
\* task), UnsupportedCompiler exactly when there is no compiler.  Whatever the
\* pipeline of the task resolves to, the task sends one CompileFinished into
\* the body; on the wire CompileStarted is followed by the one frame of its
\* body before anything else, and no other message is followed by a body.
C27_TwoPhase ==
    /\ [][\A c \in Links : CompileRead(c) =>
            LET m == link'[c].message IN
            /\ m \in {"CompileStarted", "UnhandledCompile", "UnsupportedCompiler"}
            /\ m = "CompileStarted"
                  <=> stats'.requests_executed = stats.requests_executed + 1
            /\ m = "CompileStarted" <=> link'[c].task.pc = "running"
            /\ m = "UnsupportedCompiler"
                  <=> stats'.requests_unsupported_compiler
                         = stats.requests_unsupported_compiler + 1
            /\ m = "UnhandledCompile"
                  <=> \/ stats'.requests_not_cacheable = stats.requests_not_cacheable + 1
                      \/ stats'.requests_not_compile = stats.requests_not_compile + 1]_vars
    /\ [][\A c \in Links :
            link[c].task.pc = "running" /\ link'[c].task.pc # "running"
               => /\ ~link[c].chunk /\ link'[c].chunk
                  /\ link'[c].task.pc \in {"sent", "over"}
                  /\ link'[c].wire = link[c].wire]_vars
    /\ [](\A c \in Links :
            LET w == Wire(c) IN
            /\ \A i \in DOMAIN w :
                  /\ w[i].part = "body"
                        => /\ w[i].what = "CompileFinished"
                           /\ i > 1 /\ w[i - 1] = Frame(w[i].n, "message", "CompileStarted")
                  /\ w[i].part = "message" /\ i < Len(w)
                        => w[i + 1].part = IF w[i].what = "CompileStarted" THEN "body"
                                           ELSE "message"
            /\ w # << >> /\ w[Len(w)] = Frame(link[c].read, "message", "CompileStarted")
                  => link[c].inner = "body" /\ link[c].task.pc # "none"
            /\ link[c].inner = "body"
                  => w # << >> /\ w[Len(w)].n = link[c].read /\ link[c].task.pc # "none")
C27_Witness == /\ Len(Wire(1)) = 2 /\ Wire(1)[1].what = "CompileStarted"
               /\ Wire(1)[2].what = "CompileFinished"
               /\ link[1].task.result = "ErrOther" /\ link[1].task.pc = "over"
C27_WitnessNoBody == /\ Len(Wire(1)) = 2 /\ Wire(1)[1].what = "UnhandledCompile"
                     /\ Wire(1)[2].what = "UnsupportedCompiler"
                     /\ link[1].inner = "none"

\* A ZeroStats request is read on connection c in this step.
ZeroStatsRead(c) ==
    link'[c].read = link[c].read + 1 /\ link'[c].message = "Stats(zeroed)"

\* C28: a step in which a ZeroStats request is handled leaves every counter
\* at zero; in every other step (requests read and answered, tasks resolving,
\* cache writes ending, frames written) no counter decreases.
C28_StatsMonotone ==
    /\ [][(\E c \in Links : ZeroStatsRead(c)) => stats' = ZeroStats]_vars
    /\ [][~(\E c \in Links : ZeroStatsRead(c))
            => \A f \in DOMAIN stats : stats'[f] >= stats[f]]_vars
C28_Witness == /\ stats = ZeroStats /\ link[1].read = 2 /\ link[1].message = "Stats(zeroed)"
               /\ Len(Wire(1)) = 2 /\ Wire(1)[2].what = "CompileFinished"
C28_WitnessCounted == /\ stats.compile_requests = 1 /\ stats.requests_executed = 1
                      /\ stats.cache_misses = 1 /\ stats.cache_writes = 1
                      /\ link[1].read = 2 /\ Wire(1)[1].what = "Stats(zeroed)"

\* The task of connection c runs the closure on its pipeline's result in
\* this step.
TaskResolves(c) == link[c].task.pc = "running" /\ link'[c].task.pc # "running"

\* C29: the CompileFinished of a pipeline error whose kind is neither
\* ProcessError nor HttpClientError has retcode -2, no signal, and on stderr
\* the error followed by every error of its chain; that of a ProcessError has
\* the stdout and stderr of the child unmodified and the child's exit code
\* for retcode or, when a signal ended it, the signal; and every
\* CompileFinished made from a process output (of a result or of a
\* ProcessError) has exactly one of retcode and signal.
C29_ErrorReply ==
    [][\A c \in Links : TaskResolves(c) =>
         LET t == link'[c].task
             f == t.finished
             status == t.output.status
         IN
         /\ t.result = "ErrOther"
               <=> t.error # << >> /\ Head(t.error) \notin {"ProcessError", "HttpClientError"}
         /\ t.result = "ErrProcess" <=> t.error # << >> /\ Head(t.error) = "ProcessError"
         /\ t.result = "ErrOther"
               => /\ f.retcode = SomeOf(RetcodeFatal) /\ f.signal = None
                  /\ f.stdout = << >>
                  /\ Len(f.stderr) = Len(t.error) + 2
                  /\ f.stderr[2] = [line |-> "error", of |-> Head(t.error)]
                  /\ \A i \in DOMAIN t.error :
                        f.stderr[i + 2] = [line |-> "cause", of |-> t.error[i]]
         /\ t.result \notin {"ErrOther", "ErrHttp"}
               => /\ f.stdout = t.output.stdout /\ f.stderr = t.output.stderr
                  /\ f.retcode.some # f.signal.some
                  /\ IF status < SignalBase
                     THEN f.retcode = SomeOf(status)
                     ELSE f.signal = SomeOf(status - SignalBase)]_vars
C29_Witness == /\ link[1].task.result = "ErrProcess" /\ link[1].task.pc = "over"
               /\ link[1].task.finished.retcode = None
               /\ link[1].task.finished.signal = SomeOf(9)
               /\ link[1].task.finished.stderr = <<2>>
C29_WitnessFatal == /\ link[1].task.result = "ErrOther"
                    /\ link[1].task.error = <<"Other", "ProcessError">>
                    /\ link[1].task.finished.retcode = SomeOf(-2)
                    /\ Len(link[1].task.finished.stderr) = 4
C29_WitnessCode == /\ link[1].task.result = "ErrProcess"
                   /\ link[1].task.finished.retcode = SomeOf(StatusFail)
                   /\ link[1].task.finished.signal = None

\* The names of the variables forwarded with a request.
Names(env_vars) == {env_vars[i][1] : i \in DOMAIN env_vars}

\* C30: the task of a Compile request runs with ForceRecache if and only if
\* a variable named SCCACHE_RECACHE was forwarded with that request, whatever
\* its value (and whatever came with the requests before it); a task with
\* ForceRecache never ends in a cache hit.
C30_Recache ==
    /\ [](\A c \in Links :
            link[c].task.pc = "running"
               => (link[c].task.cache_control = "ForceRecache"
                     <=> "SCCACHE_RECACHE" \in Names(link[c].task.env_vars)))
    /\ [][\A c \in Links :
            TaskResolves(c) /\ link[c].task.cache_control = "ForceRecache"
               => link'[c].task.result # "CacheHit"]_vars
C30_Witness == /\ link[1].task.pc = "running" /\ link[1].task.cache_control = "ForceRecache"
               /\ link[1].task.env_vars = <<<<"SCCACHE_RECACHE", "">>>>
C30_WitnessNext == /\ link[1].read = 2 /\ link[2].read = 0 /\ stats.forced_recaches = 1
                   /\ link[1].task.pc = "running"
                   /\ link[1].task.cache_control = "Default"
                   /\ link[1].task.env_vars = <<<<"sccache_recache", "1">>>>

\* The lines of the `-E` probe's stdout and the first of them that names a
\* compiler family.
ProbeLines == Lines(probe.e.stdout, probe.bare)
FamilyLines == {<<"clang">>, <<"diab">>, <<"gcc">>, <<"msvc">>, <<"msvc-clang">>}
FirstFamily(i) ==
    /\ i \in DOMAIN ProbeLines
    /\ ProbeLines[i] \in FamilyLines
    /\ \A j \in 1..(i - 1) : ProbeLines[j] \notin FamilyLines
AdapterOf(line) ==
    CASE line = <<"clang">> -> "Clang"
      [] line = <<"diab">> -> "Diab"
      [] line = <<"gcc">> -> "GCC"
      [] line = <<"msvc">> -> "MSVC"
      [] line = <<"msvc-clang">> -> "MSVC(is_clang)"
RustcStem == ToLowercase(probe.stem) = <<"r", "u", "s", "t", "c">>
RustcConfirmed ==
    /\ RustcStem /\ probe.vv.spawn = "Ok" /\ probe.vv.status = 0
    /\ probe.vv.utf8 /\ StartsWith(probe.vv.stdout, <<"rustc", " ">>)
Scanned ==
    IF \E i \in DOMAIN ProbeLines : FirstFamily(i)
    THEN \E i \in DOMAIN ProbeLines :
            FirstFamily(i) /\ probe.result = OkKind(AdapterOf(ProbeLines[i]))
    ELSE probe.result = OkKind("None")
NoneIsError ==
    probe.pc = "info"
       => probe.info = IF probe.result = OkKind("None")
                       THEN ErrKind("could not determine compiler kind")
                       ELSE probe.result

C31_WitnessNone ==
    /\ probe.pc = "info" /\ probe.e.spawn = "Ok" /\ probe.e.utf8
    /\ probe.result = OkKind("None")
    /\ probe.info = ErrKind("could not determine compiler kind")

\* C31 witness: a rustc whose `-vV` could not be run is an error.
C31_WitnessError ==
    /\ probe.pc = "info" /\ RustcStem /\ probe.vv.spawn = "Err"
    /\ probe.info = ErrKind("io")

\* C31 witness: rustc confirmed by `-vV`.
C31_WitnessRust ==
    probe.pc = "info" /\ RustcConfirmed /\ probe.info = OkKind("Rust")

\* The results of a call of the dist client after which the next call is made.
Succeeded(res) == res \in {"Ok", "NeedToolchain", "Success", "Complete"}

\* The call that follows the calls made so far, all of them successful.
NextCall(log) ==
    CASE Len(log) = 0 -> "put_toolchain"
      [] Len(log) = 1 -> "do_alloc_job"
      [] Len(log) = 2 -> IF log[2].res = "NeedToolchain"
                         THEN "do_submit_toolchain" ELSE "do_run_job"
      [] Len(log) = 3 -> IF log[3].call = "do_submit_toolchain"
                         THEN "do_run_job" ELSE "none"
      [] OTHER -> "none"

\* C32: in one offload attempt the dist client is called in the order
\* put_toolchain, do_alloc_job, do_submit_toolchain, do_run_job;
\* do_submit_toolchain is called exactly when the allocation succeeded with
\* need_toolchain = true; a call is made only when every call before it
\* succeeded, and a call that fails (an error, alloc Fail, submit JobNotFound
\* or CannotCache, run JobNotFound) is the last of the attempt: the or_else
\* is next.
C32_StepOrder ==
    /\ [](\A r \in Reqs :
            LET log == task[r].calls IN
            /\ \A i \in DOMAIN log :
                  /\ log[i].call = NextCall(SubSeq(log, 1, i - 1))
                  /\ i < Len(log) => Succeeded(log[i].res)
            /\ (log # << >> /\ ~Succeeded(log[Len(log)].res))
                  => task[r].pc = "or_else"
            /\ (log # << >> /\ log[Len(log)].res = "NeedToolchain")
                  => task[r].pc = "submit_toolchain")
    /\ [][\A r \in Reqs :
            task'[r].calls # task[r].calls
               => \/ /\ task[r].pc \in {"fetch", "or_else"}
                     /\ task'[r].calls = << >>
                  \/ /\ Len(task'[r].calls) = Len(task[r].calls) + 1
                     /\ SubSeq(task'[r].calls, 1, Len(task[r].calls)) = task[r].calls
                     /\ task[r].pc \in {"put_toolchain", "alloc_job",
                                        "submit_toolchain", "run_job"}]_vars

\* C32 witness: the four calls have been made, the toolchain was asked for.
C32_Witness ==
    \E r \in Reqs :
        /\ task[r].pc = "fetch" /\ Len(task[r].calls) = 4
        /\ task[r].calls[3].call = "do_submit_toolchain"

\* C32 witness: the allocation failed and nothing was called after it.
C32_WitnessFail ==
    \E r \in Reqs :
        /\ task[r].pc = "or_else" /\ Len(task[r].calls) = 2
        /\ task[r].calls[2].res = "Fail"

\* C32 witness: no toolchain was asked for and the job ran after three calls.
C32_WitnessNoSubmit ==
    \E r \in Reqs :
        /\ task[r].pc = "fetch" /\ Len(task[r].calls) = 3
        /\ task[r].calls[2].res = "Success"

\* What a fetched output holds.
FetchedFile(r) == [data |-> task[r].key, len |-> BlobLen, mode |-> OutMode]

\* The fetch of the outputs of r has failed and the or_else is next.
FetchFailed(r) ==
    /\ task[r].pc = "or_else"
    /\ task[r].calls # << >>
    /\ task[r].calls[Len(task[r].calls)].res = "Complete"

\* C33 (as claimed): when the fetch of the outputs of a remote job fails,
\* every local path recorded so far in the attempt is deleted before the
\* attempt reports its failure, so that none of the fetched files is left
\* when the local fallback starts.
C33_Cleanup ==
    \A r \in Reqs :
        FetchFailed(r) => \A p \in task[r].pushed : files[p] = NoFile

\* C33 (amended): when the fetch of the outputs of a remote job fails, the
\* removal of every local path recorded so far in the attempt is tried before
\* the attempt reports its failure; a path whose removal succeeds (or that
\* does not exist) is absent when the local fallback starts, also when it
\* held a file before the fetch; a path whose removal fails is left with
\* what was fetched, and the failure of the removal is only logged.  Paths
\* not recorded are left as they were.  DistType::Ok is reported only by a
\* fetch in which nothing failed: every output was written.
C33_BestEffortCleanup ==
    /\ [](\A r \in Reqs :
            FetchFailed(r)
               => /\ task[r].kept \subseteq task[r].pushed
                  /\ \A p \in task[r].pushed \ task[r].kept : files[p] = NoFile
                  /\ \A p \in task[r].kept : files[p] = FetchedFile(r)
                  /\ task[r].dist_type # "Ok")
    /\ [][\A r \in Reqs :
            (task[r].pc = "fetch" /\ task'[r].pc = "or_else")
               => \A p \in Paths \ task'[r].pushed : files'[p] = files[p]]_vars
    /\ [][\A r \in Reqs :
            (task[r].pc = "fetch" /\ task'[r].pc = "store")
               => \A n \in DOMAIN task[r].outputs :
                     files'[task[r].outputs[n]] = FetchedFile(r)]_vars
    /\ [][\A r \in Reqs :
            (task'[r].dist_type = "Ok" /\ task[r].dist_type # "Ok")
               => /\ task[r].pc = "fetch" /\ task'[r].pc # "or_else"
                  /\ task'[r].pushed = {}]_vars
    /\ [][stats'.dist_compiles # stats.dist_compiles
            => \E r \in Reqs :
                  /\ task[r].dist_type = "Ok" \/ task[r].pc = "fetch"
                  /\ task'[r].pc # "or_else"]_vars

\* C33 witness: the fetch failed after a path that held a file of an earlier
\* compile was recorded, and the path is gone.
C33_Witness ==
    \E r \in Reqs :
        /\ FetchFailed(r)
        /\ \E p \in task[r].pushed \ task[r].kept : files[p] = NoFile
        /\ r > 1

\* C33 witness: a recorded path could not be removed and holds what was
\* fetched.
C33_WitnessKept ==
    \E r \in Reqs :
        FetchFailed(r) /\ \E p \in task[r].kept : files[p] = FetchedFile(r)

\* C33 witness: every output was fetched and the compile counts as
\* distributed.
C33_WitnessOk ==
    \E r \in Reqs :
        /\ task[r].pc = "store" /\ task[r].dist_type = "Ok"
        /\ \A n \in DOMAIN task[r].outputs :
              files[task[r].outputs[n]] = FetchedFile(r)

\* The compiler has run on this machine in the step, once, for a request
\* that is not counted as distributed.
RanLocally(r) ==
    /\ task[r].compiles = 0
    /\ task'[r].calls = << >>
    /\ stats'.dist_compiles = stats.dist_compiles
    /\ stats'.dist_errors = stats.dist_errors
    /\ \/ /\ task'[r].pc = "store" /\ task'[r].compiles = 1
          /\ task'[r].dist_type = "NoDist"
          /\ task'[r].output = CompilerOutput(task[r].key, StatusOk)
       \/ /\ task'[r].pc = "done"
          /\ task'[r].result \in {"CompileFailed", "NotCacheable", "ErrProcess"}
          /\ task'[r].reply.stdout = CompilerStdout(task[r].key)

NoDistCommand == Msg("Could not create distributed compile command")

\* C34: the dist client is called only for a request whose get_client gave a
\* client and whose adapter gave a distributed compile command.  With
\* Ok(None), once the compile commands are generated, the compiler runs
\* locally in the same step and the request counts as DistType::NoDist.
\* With a client and no distributed command no call of the dist client is
\* made and the local compile is next.
C34_OffloadGate ==
    /\ [][\A r \in Reqs :
            (task[r].calls = << >> /\ task'[r].calls # << >>)
               => /\ task[r].dist = "client"
                  /\ task[r].pc = "put_toolchain"
                  /\ task[r].error = << >>]_vars
    /\ [][\A r \in Reqs :
            (task[r].pc # "put_toolchain" /\ task'[r].pc = "put_toolchain")
               => task[r].pc = "compile" /\ task[r].dist = "client"]_vars
    /\ [][\A r \in Reqs :
            (task[r].pc = "compile" /\ task[r].dist = "none"
               /\ task'[r].pc # "compile" /\ task'[r].result # "ErrOther")
               => RanLocally(r)]_vars
    /\ [](\A r \in Reqs :
            (task[r].pc = "or_else" /\ task[r].error = NoDistCommand)
               => task[r].dist = "client" /\ task[r].calls = << >>)
    /\ [][\A r \in Reqs :
            (task[r].pc = "or_else" /\ task[r].error = NoDistCommand
               /\ task'[r].pc # "or_else")
               => /\ task'[r].pc = "fallback" /\ task'[r].calls = << >>
                  /\ task'[r].compiles = 0]_vars
    /\ [][\A r \in Reqs :
            (task[r].pc = "fallback" /\ task'[r].pc # "fallback")
               => /\ task'[r].calls = << >>
                  /\ task'[r].pc = "store" => task'[r].compiles = 1]_vars

\* C34 witness: without a client the compiler has run locally and the
\* request is not counted as distributed.
C34_Witness ==
    \E r \in Reqs :
        /\ task[r].pc = "store" /\ task[r].dist = "none"
        /\ task[r].compiles = 1 /\ task[r].dist_type = "NoDist"

\* C34 witness: with a client and no distributed command the local compile
\* is next and the dist client has not been called.
C34_WitnessNoCommand ==
    \E r \in Reqs :
        /\ task[r].pc = "fallback" /\ task[r].dist = "client"
        /\ task[r].calls = << >> /\ task[r].compiles = 0
        /\ stats.dist_compiles + stats.dist_errors > 0

\* The stages of the offload, of a compile and of the write-back.
CompileStages == {"put_toolchain", "alloc_job", "submit_toolchain", "run_job",
                  "fetch", "or_else", "fallback", "store", "write"}

\* C35: a request whose get_client returned Err is hashed and looked up like
\* any other.  A hit goes on to be materialized and is answered with the
\* entry's streams and status 0.  After any other result of the lookup no
\* compiler runs, here or remotely, no file and no entry is written, and the
\* request ends in the error: CompileFinished with retcode -2.
C35_FailFastRequest ==
    /\ [](\A r \in Reqs :
            task[r].dist = "err"
               => /\ task[r].compiles = 0 /\ task[r].calls = << >>
                  /\ task[r].put = "none"
                  /\ task[r].pc \notin CompileStages)
    /\ [][\A r \in Reqs :
            (task[r].dist = "err" /\ task[r].pc = "lookup" /\ task'[r].pc # "lookup")
               => /\ task'[r].lookup \in LookupResults(task[r])
                  /\ task'[r].get_called = (task[r].cache_control # "ForceRecache")
                  /\ task'[r].pc = IF task'[r].lookup = "Hit" THEN "hit" ELSE "compile"
                  /\ task'[r].lookup = "Hit" => task'[r].entry = storage[task[r].key]]_vars
    /\ [][\A r \in Reqs :
            (task[r].dist = "err" /\ task[r].pc = "compile" /\ task'[r].pc # "compile")
               => /\ task'[r].pc = "done" /\ task'[r].result = "ErrOther"
                  /\ task'[r].put = "none"
                  /\ task[r].rx => /\ task'[r].reply.sent
                                   /\ task'[r].reply.retcode = RetcodeFatal
                  /\ files' = files /\ storage' = storage
                  /\ stats'.cache_writes = stats.cache_writes
                  /\ stats'.cache_misses = stats.cache_misses]_vars
    /\ [][\A r \in Reqs :
            (task[r].dist = "err" /\ task[r].pc = "hit"
               /\ task'[r].result = "CacheHit")
               => /\ task'[r].pc = "done"
                  /\ task[r].rx => /\ task'[r].reply.retcode = StatusOk
                                   /\ task'[r].reply.stdout = task[r].output.stdout
                  /\ stats'.cache_hits = stats.cache_hits + 1]_vars

\* C35 witness: the lookup of a request whose get_client failed has missed
\* and the head of dist_or_local_compile is next.
C35_Witness ==
    \E r \in Reqs :
        /\ task[r].dist = "err" /\ task[r].pc = "compile"
        /\ task[r].lookup = "Miss" /\ task[r].get_called

\* C35 witness: the lookup of a request whose get_client failed has hit an
\* entry an earlier request has stored.
C35_WitnessHit ==
    \E r \in Reqs :
        /\ task[r].dist = "err" /\ task[r].pc = "hit"
        /\ task[r].entry # NoEntry

\* C35 witness: the request whose get_client failed has ended in the error
\* and its key has no entry.
C35_WitnessError ==
    \E r \in Reqs :
        /\ task[r].pc = "done" /\ task[r].result = "ErrOther"
        /\ task[r].reply.retcode = RetcodeFatal
        /\ got.res = "err" /\ storage[task[r].key] = NoEntry
        /\ \A q \in Reqs : q > r => task[q].pc = "idle"

\* C36: the state of the dist client is Disabled exactly when the
\* configuration has no scheduler url; a state with a configuration carries
\* the one the container was built with, whatever calls of get_client,
\* reset_state and get_status are made; get_status leaves the state as it
\* is, also a retry that is due.
C36_StateAndConfig ==
    /\ [](dist_client.tag = "Disabled" <=> created.cfg = 0)
    /\ [](dist_client.tag # "Disabled" => dist_client.cfg = created.cfg)
    /\ [][dist_client.tag # "Disabled"
            => /\ dist_client'.tag # "Disabled"
               /\ dist_client'.cfg = dist_client.cfg]_vars
    /\ [][CallGetStatus => dist_client' = dist_client]_vars

\* C36 witness: get_status has been called on a retry that is due and has
\* left it as it was.
C36_Witness ==
    /\ got = [res |-> "NotConnected", time |-> now]
    /\ dist_client.tag = "RetryCreateAt" /\ dist_client.at <= now
    /\ created.cfg = NCfg

\* C36 witness: without a scheduler url the state is Disabled after the
\* calls.
C36_WitnessDisabled ==
    /\ got = [res |-> "Disabled", time |-> now]
    /\ dist_client = Disabled /\ created.cfg = 0 /\ now > 1

\* A ZeroStats request has been handled on some connection.
Zeroed ==
    \E c \in Links :
        \/ link[c].message = "Stats(zeroed)"
        \/ \E i \in DOMAIN Wire(c) : Wire(c)[i].what = "Stats(zeroed)"

\* The Compile requests that wait for the detection, those whose detection
\* failed on the metadata of the executable, and those dropped with their
\* connection while they waited.
InState(inner) == Cardinality({c \in Links : link[c].inner = inner})

Outcomes3 == stats.cache_hits + stats.cache_misses + stats.compile_fails

\* C37 (as claimed): in a run without ZeroStats the Compile requests counted
\* are at least the requests check_compiler has counted (unsupported
\* compiler, not a compile, not cacheable, executed), and as many whenever no
\* Compile request waits for the detection of its compiler and none failed
\* in it; the hits, misses and failed compiles are at most the requests
\* executed.
C37_Accounting ==
    ~Zeroed
       => /\ stats.compile_requests >= Answered
          /\ (InState("detecting") = 0 /\ InState("failed") = 0)
                => stats.compile_requests = Answered
          /\ Outcomes3 <= stats.requests_executed

\* C37 (amended): in a run without ZeroStats the Compile requests counted
\* are the requests check_compiler has counted, plus the requests that wait
\* for the detection of their compiler, plus those whose detection failed on
\* the metadata of the executable, plus those dropped with their connection
\* while they waited; the hits, misses and failed compiles are at most the
\* requests executed.
C37_RequestAccounting ==
    ~Zeroed
       => /\ stats.compile_requests
                = Answered + InState("detecting") + InState("failed")
                     + InState("dropped")
          /\ Outcomes3 <= stats.requests_executed

\* C37 witness: a request was dropped while it waited, and the requests
\* counted are one more than those answered.
C37_Witness ==
    /\ ~Zeroed /\ InState("dropped") = 1 /\ InState("detecting") = 0
    /\ stats.compile_requests = Answered + 1

\* C37 witness: two requests counted, one executed and missed, one waiting.
C37_WitnessWaiting ==
    /\ ~Zeroed /\ InState("detecting") = 1
    /\ stats.compile_requests = 2 /\ stats.requests_executed = 1
    /\ stats.cache_misses = 1

\* C37 witness: a ZeroStats handled while a request waited for the detection
\* leaves fewer requests counted than answered.
C37_WitnessZeroed ==
    Zeroed /\ stats.compile_requests < Answered

\* C37 witness: a ZeroStats handled while a task ran leaves more outcomes
\* than requests executed.
C37_WitnessZeroedTask ==
    Zeroed /\ Outcomes3 > stats.requests_executed

\* The errors select_all can resolve with.
SupervisorErrors == {"accept error", "timer error"}

\* The instances of ActiveInfo alive: the one of the service the accept loop
\* clones, as long as the accept loop is there, one per open connection and
\* one per compile task.
LiveHandles ==
    (IF sup.phase = "running" \/ (sup.phase = "exited" /\ sup.why \in SupervisorErrors)
     THEN 1 ELSE 0)
    + Cardinality({c \in Conns : conn[c].state = "open"})
    + inflight

\* C38: Info.active is the number of instances of ActiveInfo alive, 1 when the
\* loop starts, and it moves by one, never from 0 downwards; the wait for the
\* services ends as done exactly when active is 0; a task is parked in blocker
\* only while instances are left, the drop of the last one takes it and wakes
\* it, so that with no instance left the waiting task is always woken, no time
\* passes and the return of _run is enabled.
C38_ActiveCounter ==
    /\ [](active = LiveHandles /\ active >= 0)
    /\ [][active' # active
            => /\ active' \in {active + 1, active - 1}
               /\ active' < active => active > 0]_vars
    /\ [][(sup.phase = "waiting" /\ sup'.phase = "exited")
            => (sup'.why = "done" <=> active = 0)]_vars
    /\ [](waiter.blocker => sup.phase \in {"waiting", "exited"} /\ active > 0 /\ ~waiter.woken)
    /\ [][(waiter.blocker /\ active' = 0 /\ sup.phase = "waiting")
            => waiter' = [blocker |-> FALSE, woken |-> TRUE]]_vars
    /\ [](sup.phase = "waiting" /\ active = 0 => waiter.woken /\ ENABLED Exit)
    /\ [][(sup.phase = "waiting" /\ active = 0)
            => now' = now /\ sup'.phase = "exited" /\ sup'.why = "done"]_vars
C38_Witness == sup.phase = "waiting" /\ active = 0 /\ waiter.woken /\ now > sup.since
               /\ \E c \in Conns : conn[c].state = "closed"
C38_WitnessParked == sup.phase = "waiting" /\ waiter.blocker /\ active = 2 /\ inflight = 1
C38_WitnessFirstPoll == sup.phase = "waiting" /\ active = 0 /\ now = sup.since

C39_WitnessReleased == sup.phase = "waiting" /\ inflight = 1 /\ active = 2 /\ now = sup.since

\* _run has returned Ok(()).
RunOk == sup.phase = "exited" /\ sup.why = "done"

\* C40: _run returns Ok exactly from the wait for the services, entered when
\* the supervisor resolved with a value, with no instance of ActiveInfo left
\* and the grace period not exceeded; when a future of the supervisor fails
\* (the accept loop, the timer of ShutdownOrInactive) _run returns the error
\* in that very step and the wait never starts; when the grace period is over
\* with instances left _run returns an error.
C40_RunResult ==
    /\ [][(sup.phase # "exited" /\ sup'.phase = "exited")
            => (RunOk' <=> /\ sup.phase = "waiting"
                           /\ sup.why \in {"signal", "shutdown", "idle"}
                           /\ active = 0
                           /\ now <= sup.since + GracePeriod)]_vars
    /\ [][(sup.phase = "running" /\ sup'.phase = "exited")
            => sup'.why \in SupervisorErrors /\ now' = now /\ sup'.since = now]_vars
    /\ [](sup.why \in SupervisorErrors => sup.phase = "exited" /\ sup.since = now)
    /\ [][(sup.phase = "waiting" /\ sup'.phase = "exited" /\ active > 0)
            => sup'.why = "timed out" /\ now = sup.since + GracePeriod]_vars
    /\ [](sup.phase = "waiting" /\ active > 0 /\ now = sup.since + GracePeriod
            => ENABLED Exit /\ WaitOver(sup, active) = "timed out")
    /\ [](sup.phase = "exited"
            => /\ sup.why \in {"done", "timed out"} \cup SupervisorErrors
               /\ RunOk <=> active = 0)
C40_Witness == /\ RunOk /\ now > sup.since /\ inflight = 0
               /\ \E c \in Conns : conn[c].reply = "ShuttingDown"
C40_WitnessTimer == sup.phase = "exited" /\ sup.why = "timer error" /\ active > 1
C40_WitnessElapsed == /\ sup.phase = "exited" /\ sup.why = "timed out" /\ inflight = 0
                      /\ active = 1

====
